---------------------------- MODULE Spec2Model ----------------------------
(***************************************************************************)
(* A model of the etcd v2 client's multi-endpoint execution engine:        *)
(* first_ok (src/src/first_ok.rs), the key-value operations built on it    *)
(* (src/src/kv.rs) and the client that owns the endpoint list              *)
(* (src/src/client.rs).                                                    *)
(*                                                                         *)
(* A call is an async fn: nothing runs until it is first polled, and it    *)
(* runs from one await to the next without interruption.  The positions    *)
(* of a call are                                                           *)
(*   idle    no call in the slot                                           *)
(*   issued  the future exists and has not been polled                     *)
(*   loop    inside first_ok's for loop, between two callbacks             *)
(*   await   suspended on the HTTP request of the current endpoint         *)
(*   done    the future has produced its result                            *)
(***************************************************************************)
EXTENDS Integers, Sequences, FiniteSets, TLC

\* The longest endpoint list a client is constructed with.
MaxEndpoints == 3

-----------------------------------------------------------------------------
(* Option<T>: None is the empty sequence, Some(x) the one-element sequence. *)

None == <<>>

Some(x) == <<x>>

IsSome(o) == o # <<>>

Unwrap(o) == o[1]

Range(s) == {s[i] : i \in 1..Len(s)}

-----------------------------------------------------------------------------
(* Inputs *)

\* Endpoint strings handed to Client::custom; the last is not a URI.
GoodEndpoints == {"http://a:2379/", "http://b:2379/"}

BadEndpoints == {"not a uri"}

\* Keys; a key with a space makes the assembled request URI unparsable.
GoodKeys == {"/test/foo"}

BadKeys == {"/test/f oo"}

Keys == GoodKeys \cup BadKeys

Values == {"bar"}

Ttls == {0, 60}

Indexes == {7}

OptOf(S) == {None} \cup {Some(x) : x \in S}

-----------------------------------------------------------------------------
(* Errors and results *)

ErrInvalidConditions == [kind |-> "InvalidConditions", message |-> ""]

ErrInvalidUri == [kind |-> "InvalidUri", message |-> ""]

ErrNoEndpoints == [kind |-> "NoEndpoints", message |-> ""]

ErrHttp == [kind |-> "Http", message |-> ""]

ErrSerialization == [kind |-> "Serialization", message |-> ""]

ErrApi(m) == [kind |-> "Api", message |-> m]

\* Placeholders for the value of a Result that is no Ok and the error of one
\* that is no Err.
NoValue == [data |-> ""]

NoError == [kind |-> "", message |-> ""]

\* Result<V, E>, as a callback (or a parser) returns it.
Ok(v) == [tag |-> "Ok", value |-> v, error |-> NoError]

Err(e) == [tag |-> "Err", value |-> NoValue, error |-> e]

\* Result<V, Vec<E>>, as first_ok and the raw_* functions return it.
OkResult(v) == [tag |-> "Ok", value |-> v, errors |-> <<>>]

ErrResult(es) == [tag |-> "Err", value |-> NoValue, errors |-> es]

\* The result slot of a call that has not completed.
Pending == [tag |-> "Pending", value |-> NoValue, errors |-> <<>>]

\* WatchError::Timeout and WatchError::Other(errors).
WatchTimeout == [tag |-> "Timeout", value |-> NoValue, errors |-> <<>>]

WatchOther(es) == [tag |-> "Other", value |-> NoValue, errors |-> es]


-----------------------------------------------------------------------------
(* Options (crate::options) and the public key-value functions.  A call is  *)
(* described by the public function's name, the raw_* function it forwards  *)
(* to, the key, the options record and, for watch, the timeout.             *)

\* ComparisonConditions::is_empty: neither a value nor an index is given.
IsEmpty(conditions) ==
    conditions.value = None /\ conditions.modified_index = None

DefaultSetOptions ==
    [conditions |-> None, create_in_order |-> FALSE, dir |-> None,
     prev_exist |-> None, refresh |-> FALSE, ttl |-> None, value |-> None]

DefaultDeleteOptions ==
    [conditions |-> None, dir |-> None, recursive |-> None]

DefaultGetOptions ==
    [recursive |-> FALSE, sort |-> None, strong_consistency |-> FALSE,
     wait |-> FALSE, wait_index |-> None]

ComparisonConditions(value, modified_index) ==
    [value |-> value, modified_index |-> modified_index]

Call(fn, raw, key, options, timeout) ==
    [fn |-> fn, raw |-> raw, key |-> key, options |-> options,
     timeout |-> timeout]

compare_and_delete(key, current_value, current_modified_index) ==
    Call("compare_and_delete", "raw_delete", key,
         [DefaultDeleteOptions EXCEPT
            !.conditions = Some(ComparisonConditions(current_value,
                                                     current_modified_index))],
         None)

\* A variant of compare_and_swap that also requires the key to exist.
compare_and_swap_existing(key, value, ttl, current_value, current_modified_index) ==
    Call("compare_and_swap", "raw_set", key,
         [DefaultSetOptions EXCEPT
            !.conditions = Some(ComparisonConditions(current_value,
                                                     current_modified_index)),
            !.prev_exist = Some(TRUE),
            !.ttl = ttl,
            !.value = Some(value)],
         None)

compare_and_swap(key, value, ttl, current_value, current_modified_index) ==
    Call("compare_and_swap", "raw_set", key,
         [DefaultSetOptions EXCEPT
            !.conditions = Some(ComparisonConditions(current_value,
                                                     current_modified_index)),
            !.ttl = ttl,
            !.value = Some(value)],
         None)

create(key, value, ttl) ==
    Call("create", "raw_set", key,
         [DefaultSetOptions EXCEPT
            !.prev_exist = Some(FALSE), !.ttl = ttl, !.value = Some(value)],
         None)

create_dir(key, ttl) ==
    Call("create_dir", "raw_set", key,
         [DefaultSetOptions EXCEPT
            !.dir = Some(TRUE), !.prev_exist = Some(FALSE), !.ttl = ttl],
         None)

create_in_order(key, value, ttl) ==
    Call("create_in_order", "raw_set", key,
         [DefaultSetOptions EXCEPT
            !.create_in_order = TRUE, !.ttl = ttl, !.value = Some(value)],
         None)

delete(key, recursive) ==
    Call("delete", "raw_delete", key,
         [DefaultDeleteOptions EXCEPT !.recursive = Some(recursive)],
         None)

delete_dir(key) ==
    Call("delete_dir", "raw_delete", key,
         [DefaultDeleteOptions EXCEPT !.dir = Some(TRUE)],
         None)

get(key, options) ==
    Call("get", "raw_get", key,
         [DefaultGetOptions EXCEPT
            !.recursive = options.recursive,
            !.sort = Some(options.sort),
            !.strong_consistency = options.strong_consistency],
         None)

set(key, value, ttl) ==
    Call("set", "raw_set", key,
         [DefaultSetOptions EXCEPT !.ttl = ttl, !.value = Some(value)],
         None)

refresh(key, ttl, conditions) ==
    Call("refresh", "raw_set", key,
         [DefaultSetOptions EXCEPT
            !.ttl = Some(ttl), !.refresh = TRUE, !.prev_exist = Some(TRUE),
            !.conditions = conditions],
         None)

set_dir(key, ttl) ==
    Call("set_dir", "raw_set", key,
         [DefaultSetOptions EXCEPT !.dir = Some(TRUE), !.ttl = ttl],
         None)

update(key, value, ttl) ==
    Call("update", "raw_set", key,
         [DefaultSetOptions EXCEPT
            !.prev_exist = Some(TRUE), !.ttl = ttl, !.value = Some(value)],
         None)

update_dir(key, ttl) ==
    Call("update_dir", "raw_set", key,
         [DefaultSetOptions EXCEPT
            !.dir = Some(TRUE), !.prev_exist = Some(TRUE), !.ttl = ttl],
         None)

\* watch hands raw_get a long-poll read; its timeout stays with the call.
watch(key, options) ==
    Call("watch", "raw_get", key,
         [DefaultGetOptions EXCEPT
            !.recursive = options.recursive,
            !.wait_index = options.index,
            !.wait = TRUE],
         options.timeout)

\* The conditions a caller may pass: each field given or not.
ConditionInputs ==
    {ComparisonConditions(v, i) : v \in OptOf(Values), i \in OptOf(Indexes)}

GetOptionInputs ==
    {[recursive |-> r, sort |-> s, strong_consistency |-> FALSE] :
        r \in BOOLEAN, s \in BOOLEAN}

\* Durations of a watch timeout, in timer units.
Durations == {1}

WatchOptionInputs ==
    {[index |-> i, recursive |-> FALSE, timeout |-> t] :
        i \in OptOf(Indexes), t \in OptOf(Durations)}

\* Every call of the public key-value API over the input sets.
Invocations ==
    {compare_and_delete(k, cv, ci) :
        k \in Keys, cv \in OptOf(Values), ci \in OptOf(Indexes)}
    \cup {compare_and_swap(k, v, t, c.value, c.modified_index) :
        k \in Keys, v \in Values, t \in OptOf(Ttls), c \in ConditionInputs}
    \cup {create(k, v, t) : k \in Keys, v \in Values, t \in OptOf(Ttls)}
    \cup {create_dir(k, t) : k \in Keys, t \in OptOf(Ttls)}
    \cup {create_in_order(k, v, t) : k \in Keys, v \in Values, t \in OptOf(Ttls)}
    \cup {delete(k, r) : k \in Keys, r \in BOOLEAN}
    \cup {delete_dir(k) : k \in Keys}
    \cup {get(k, o) : k \in Keys, o \in GetOptionInputs}
    \cup {set(k, v, t) : k \in Keys, v \in Values, t \in OptOf(Ttls)}
    \cup {refresh(k, t, c) : k \in Keys, t \in Ttls, c \in OptOf(ConditionInputs)}
    \cup {set_dir(k, t) : k \in Keys, t \in OptOf(Ttls)}
    \cup {update(k, v, t) : k \in Keys, v \in Values, t \in OptOf(Ttls)}
    \cup {update_dir(k, t) : k \in Keys, t \in OptOf(Ttls)}
    \cup {watch(k, o) : k \in Keys, o \in WatchOptionInputs}


-----------------------------------------------------------------------------
(* Request encoding *)

\* format!("{}", bool) and bool_to_cow.
BoolToCow(value) == IF value THEN "true" ELSE "false"

\* HashMap::insert on a map kept as a set of <<name, value>> pairs.
Insert(map, name, value) == {p \in map : p[1] # name} \cup {<<name, value>>}

\* A variant of PrevExist in which a refresh always requires existence.
PrevExistRefreshFirst(options) ==
    IF options.refresh THEN Some(TRUE) ELSE options.prev_exist

\* The effective prev_exist requirement of a write.
PrevExist(options) ==
    IF IsSome(options.prev_exist) THEN options.prev_exist
    ELSE IF options.refresh THEN Some(TRUE)
    ELSE None

\* A variant of SetConditionPairs that takes the value only when no index is given.
SetConditionPairsEitherOr(conditions) ==
    IF IsSome(conditions.modified_index)
        THEN << <<"prevIndex", ToString(Unwrap(conditions.modified_index))>> >>
    ELSE IF IsSome(conditions.value)
        THEN << <<"prevValue", Unwrap(conditions.value)>> >>
    ELSE <<>>

\* The compare parameters raw_set pushes for a (validated) condition set.
SetConditionPairs(conditions) ==
    (IF IsSome(conditions.modified_index)
        THEN << <<"prevIndex", ToString(Unwrap(conditions.modified_index))>> >>
        ELSE <<>>)
    \o (IF IsSome(conditions.value)
        THEN << <<"prevValue", Unwrap(conditions.value)>> >>
        ELSE <<>>)

\* A variant of SetHttpOptions that leaves a ttl of zero out.
SetHttpOptionsPositiveTtl(options) ==
    (IF IsSome(options.value)
        THEN << <<"value", Unwrap(options.value)>> >> ELSE <<>>)
    \o (IF IsSome(options.ttl) /\ Unwrap(options.ttl) > 0
        THEN << <<"ttl", ToString(Unwrap(options.ttl))>> >> ELSE <<>>)
    \o (IF IsSome(options.dir)
        THEN << <<"dir", BoolToCow(Unwrap(options.dir))>> >> ELSE <<>>)
    \o (IF IsSome(PrevExist(options))
        THEN << <<"prevExist", BoolToCow(Unwrap(PrevExist(options)))>> >>
        ELSE <<>>)
    \o (IF options.refresh
        THEN << <<"refresh", BoolToCow(TRUE)>> >> ELSE <<>>)
    \o (IF IsSome(options.conditions)
        THEN SetConditionPairs(Unwrap(options.conditions)) ELSE <<>>)

\* raw_set's http_options, in push order.
SetHttpOptions(options) ==
    (IF IsSome(options.value)
        THEN << <<"value", Unwrap(options.value)>> >> ELSE <<>>)
    \o (IF IsSome(options.ttl)
        THEN << <<"ttl", ToString(Unwrap(options.ttl))>> >> ELSE <<>>)
    \o (IF IsSome(options.dir)
        THEN << <<"dir", BoolToCow(Unwrap(options.dir))>> >> ELSE <<>>)
    \o (IF IsSome(PrevExist(options))
        THEN << <<"prevExist", BoolToCow(Unwrap(PrevExist(options)))>> >>
        ELSE <<>>)
    \o (IF options.refresh
        THEN << <<"refresh", BoolToCow(TRUE)>> >> ELSE <<>>)
    \o (IF IsSome(options.conditions)
        THEN SetConditionPairs(Unwrap(options.conditions)) ELSE <<>>)

\* A variant of RawSetPreamble that does not validate the conditions.
RawSetPreambleUnchecked(options) ==
    OkResult([body |-> SetHttpOptions(options), query |-> {}])

\* The part of raw_set before first_ok: Err on an empty condition set.
RawSetPreamble(options) ==
    IF IsSome(options.conditions) /\ IsEmpty(Unwrap(options.conditions))
        THEN ErrResult(<<ErrInvalidConditions>>)
        ELSE OkResult([body |-> SetHttpOptions(options), query |-> {}])

\* The compare parameters raw_delete inserts for a (validated) condition set.
DeleteConditionPairs(map, conditions) ==
    LET withIndex ==
            IF IsSome(conditions.modified_index)
                THEN Insert(map, "prevIndex",
                            ToString(Unwrap(conditions.modified_index)))
                ELSE map
    IN  IF IsSome(conditions.value)
            THEN Insert(withIndex, "prevValue", Unwrap(conditions.value))
            ELSE withIndex

\* raw_delete's query_pairs.
DeleteQueryPairs(options) ==
    LET withRecursive ==
            IF IsSome(options.recursive)
                THEN Insert({}, "recursive", BoolToCow(Unwrap(options.recursive)))
                ELSE {}
        withDir ==
            IF IsSome(options.dir)
                THEN Insert(withRecursive, "dir", BoolToCow(Unwrap(options.dir)))
                ELSE withRecursive
    IN  IF IsSome(options.conditions)
            THEN DeleteConditionPairs(withDir, Unwrap(options.conditions))
            ELSE withDir

\* A variant of RawDeletePreamble that does not validate the conditions.
RawDeletePreambleUnchecked(options) ==
    OkResult([body |-> <<>>, query |-> DeleteQueryPairs(options)])

\* The part of raw_delete before first_ok.
RawDeletePreamble(options) ==
    IF IsSome(options.conditions) /\ IsEmpty(Unwrap(options.conditions))
        THEN ErrResult(<<ErrInvalidConditions>>)
        ELSE OkResult([body |-> <<>>, query |-> DeleteQueryPairs(options)])

\* raw_get's query_pairs; raw_get validates nothing.
GetQueryPairs(options) ==
    LET withRecursive == Insert({}, "recursive", BoolToCow(options.recursive))
        withSorted ==
            IF IsSome(options.sort)
                THEN Insert(withRecursive, "sorted", BoolToCow(Unwrap(options.sort)))
                ELSE withRecursive
        withWait ==
            IF options.wait THEN Insert(withSorted, "wait", "true")
            ELSE withSorted
    IN  IF IsSome(options.wait_index)
            THEN Insert(withWait, "waitIndex", ToString(Unwrap(options.wait_index)))
            ELSE withWait

RawGetPreamble(options) ==
    OkResult([body |-> <<>>, query |-> GetQueryPairs(options)])

\* What a call computes before it enters first_ok: a failure, or the form
\* body (a write) or query pairs (a delete or a read) of its requests.
Preamble(call) ==
    CASE call.raw = "raw_set" -> RawSetPreamble(call.options)
      [] call.raw = "raw_delete" -> RawDeletePreamble(call.options)
      [] call.raw = "raw_get" -> RawGetPreamble(call.options)

\* A variant of BuildUri that parses nothing: every key gives a URI.
BuildUriUnparsed(endpoint, path) == Ok(endpoint \o "v2/keys" \o path)

\* build_uri: the endpoint, "v2/keys" and the key, parsed as a URI.
BuildUri(endpoint, path) ==
    IF path \in BadKeys THEN Err(ErrInvalidUri)
    ELSE Ok(endpoint \o "v2/keys" \o path)

\* A variant of Method that sends every write with PUT.
MethodAlwaysPut(call) ==
    CASE call.raw = "raw_set" -> "PUT"
      [] call.raw = "raw_delete" -> "DELETE"
      [] call.raw = "raw_get" -> "GET"

\* The transport verb of a call's requests.
Method(call) ==
    CASE call.raw = "raw_set" ->
            IF call.options.create_in_order THEN "POST" ELSE "PUT"
      [] call.raw = "raw_delete" -> "DELETE"
      [] call.raw = "raw_get" -> "GET"

\* The request a callback sends: verb, URI, query pairs and form body.
Request(call, uri, encoded) ==
    [method |-> Method(call), uri |-> uri,
     query |-> encoded.query, body |-> encoded.body]

-----------------------------------------------------------------------------
(* Responses *)

StatusOK == 200

StatusCreated == 201

\* Statuses that are neither 200 nor 201.
OtherStatuses == {404}

\* What a response body decodes as.
Bodies == {"KeyValueInfo", "ApiError", "Garbage"}

Contents(body) ==
    CASE body = "KeyValueInfo" -> {"node1", "node2"}
      [] body = "ApiError" -> {"Key already exists"}
      [] body = "Garbage" -> {""}

\* The request failed in the transport: no response.
TransportFailure == [arrived |-> FALSE, status |-> 0, body |-> "", content |-> ""]

Replies ==
    {TransportFailure}
    \cup UNION {{[arrived |-> TRUE, status |-> s, body |-> b, content |-> c] :
                    s \in {StatusOK, StatusCreated} \cup OtherStatuses,
                    c \in Contents(b)} : b \in Bodies}

\* serde_json::from_slice::<T>(&body).
FromSlice(type, reply) == reply.body = type

\* The tail of raw_set's callback, from the transport's answer on.
RawSetResponse(reply) ==
    IF ~reply.arrived THEN Err(ErrHttp)
    ELSE IF reply.status \in {StatusCreated, StatusOK}
        THEN IF FromSlice("KeyValueInfo", reply)
                THEN Ok([data |-> reply.content])
                ELSE Err(ErrSerialization)
        ELSE IF FromSlice("ApiError", reply)
                THEN Err(ErrApi(reply.content))
                ELSE Err(ErrSerialization)

\* The tail of raw_delete's callback.
RawDeleteResponse(reply) ==
    IF ~reply.arrived THEN Err(ErrHttp)
    ELSE IF reply.status = StatusOK
        THEN IF FromSlice("KeyValueInfo", reply)
                THEN Ok([data |-> reply.content])
                ELSE Err(ErrSerialization)
        ELSE IF FromSlice("ApiError", reply)
                THEN Err(ErrApi(reply.content))
                ELSE Err(ErrSerialization)

\* A variant of RawGetResponse that takes 201 for a success as raw_set does.
RawGetResponseCreatedToo(reply) ==
    IF ~reply.arrived THEN Err(ErrHttp)
    ELSE IF reply.status \in {StatusCreated, StatusOK}
        THEN IF FromSlice("KeyValueInfo", reply)
                THEN Ok([data |-> reply.content])
                ELSE Err(ErrSerialization)
        ELSE IF FromSlice("ApiError", reply)
                THEN Err(ErrApi(reply.content))
                ELSE Err(ErrSerialization)

\* The tail of raw_get's callback.
RawGetResponse(reply) ==
    IF ~reply.arrived THEN Err(ErrHttp)
    ELSE IF reply.status = StatusOK
        THEN IF FromSlice("KeyValueInfo", reply)
                THEN Ok([data |-> reply.content])
                ELSE Err(ErrSerialization)
        ELSE IF FromSlice("ApiError", reply)
                THEN Err(ErrApi(reply.content))
                ELSE Err(ErrSerialization)

HandleResponse(call, reply) ==
    CASE call.raw = "raw_set" -> RawSetResponse(reply)
      [] call.raw = "raw_delete" -> RawDeleteResponse(reply)
      [] call.raw = "raw_get" -> RawGetResponse(reply)


-----------------------------------------------------------------------------
(* The client *)

EndpointInputs ==
    UNION {[1..n -> GoodEndpoints \cup BadEndpoints] : n \in 0..MaxEndpoints}

\* A variant of Custom that keeps the first of equal endpoint strings only.
CustomDeduplicating(input) ==
    LET keep == {i \in 1..Len(input) : \A j \in 1..(i - 1) : input[j] # input[i]}
        unique == [n \in 1..Cardinality(keep) |->
                    input[CHOOSE i \in keep :
                            Cardinality({j \in keep : j < i}) = n - 1]]
    IN  IF Len(input) < 1 THEN Err(ErrNoEndpoints)
        ELSE IF \E i \in 1..Len(input) : input[i] \in BadEndpoints
            THEN Err(ErrInvalidUri)
            ELSE Ok([endpoints |-> unique])

\* A variant of Custom that does not look at the length of the list.
CustomAcceptingEmpty(input) ==
    IF \E i \in 1..Len(input) : input[i] \in BadEndpoints
        THEN Err(ErrInvalidUri)
        ELSE Ok([endpoints |-> input])

\* Client::custom: Err on an empty list or an unparsable endpoint, else the
\* client, holding the parsed endpoints in the order given.
Custom(input) ==
    IF Len(input) < 1 THEN Err(ErrNoEndpoints)
    ELSE IF \E i \in 1..Len(input) : input[i] \in BadEndpoints
        THEN Err(ErrInvalidUri)
        ELSE Ok([endpoints |-> input])

-----------------------------------------------------------------------------
(* State *)

Calls == {"c1"}

VARIABLES
    endpoints,  \* the client's endpoint sequence (Client.endpoints)
    pc,         \* pc[c]: the position of call c
    op,         \* op[c]: the call, as built by the public function
    params,     \* params[c]: http_options / query_pairs captured by the callback
    eps,        \* eps[c]: first_ok's own copy of the endpoint list
    idx,        \* idx[c]: the position of first_ok's for loop in eps[c]
    errors,     \* errors[c]: first_ok's accumulator
    result,     \* result[c]: what the call returned, or Pending
    timer,      \* timer[c]: the watch's one-shot timer: off, armed or fired
    net,        \* net[c]: the requests of call c on the wire
    log,        \* log[c]: instrumentation: the callback events of call c, in order
    made,       \* what Client::custom returned, or NoOutcome before it is called
    stream,     \* the stream of health / versions: its function and its phase
    inflight,   \* the endpoint positions whose status request is on the wire
    requested,  \* instrumentation: the status requests sent, in order
    completed,  \* the status futures that completed, in completion order
    yielded,    \* the items the stream handed its consumer, in order
    arg,        \* the input of the function under study (function specifications)
    ret         \* what the function returned for arg

\* The variables of a key-value call, of the status stream, of a function study.
kv == <<pc, op, params, eps, idx, errors, result, timer, net, log>>

fanout == <<stream, inflight, requested, completed, yielded>>

probe == <<arg, ret>>

vars == <<endpoints, kv, made, fanout, probe>>

NoCall ==
    [fn |-> "none", raw |-> "none", key |-> "", options |-> [conditions |-> None],
     timeout |-> None]

NoParams == [body |-> <<>>, query |-> {}]

NoRequest == [method |-> "", uri |-> "", query |-> {}, body |-> <<>>]

NoOutcome == [tag |-> "None", value |-> NoValue, error |-> NoError]

\* Instrumentation events, each with the endpoint position it is about: the
\* callback was invoked ("attempt"), it put its request on the wire ("send"),
\* it returned its Result ("return").
Attempted(pos) == [ev |-> "attempt", pos |-> pos, req |-> NoRequest, out |-> NoOutcome]

Sent(pos, req) == [ev |-> "send", pos |-> pos, req |-> req, out |-> NoOutcome]

Returns(pos, out) == [ev |-> "return", pos |-> pos, req |-> NoRequest, out |-> out]

\* No status stream exists.
NoStream == [fn |-> "none", phase |-> "none"]

NoFanout ==
    /\ stream = NoStream
    /\ inflight = {}
    /\ requested = <<>>
    /\ completed = <<>>
    /\ yielded = <<>>

\* No function is under study.
NoProbe == arg = <<>> /\ ret = <<>>

\* No key-value call exists.
NoCalls ==
    /\ pc = [c \in Calls |-> "idle"]
    /\ op = [c \in Calls |-> NoCall]
    /\ params = [c \in Calls |-> NoParams]
    /\ eps = [c \in Calls |-> <<>>]
    /\ idx = [c \in Calls |-> 0]
    /\ errors = [c \in Calls |-> <<>>]
    /\ result = [c \in Calls |-> Pending]
    /\ timer = [c \in Calls |-> "off"]
    /\ net = [c \in Calls |-> {}]
    /\ log = [c \in Calls |-> <<>>]

Init ==
    /\ endpoints \in {Custom(l).value.endpoints :
                        l \in {i \in EndpointInputs : Custom(i).tag = "Ok"}}
    /\ pc = [c \in Calls |-> "idle"]
    /\ op = [c \in Calls |-> NoCall]
    /\ params = [c \in Calls |-> NoParams]
    /\ eps = [c \in Calls |-> <<>>]
    /\ idx = [c \in Calls |-> 0]
    /\ errors = [c \in Calls |-> <<>>]
    /\ result = [c \in Calls |-> Pending]
    /\ timer = [c \in Calls |-> "off"]
    /\ net = [c \in Calls |-> {}]
    /\ log = [c \in Calls |-> <<>>]
    /\ made = Custom(endpoints)
    /\ NoFanout
    /\ NoProbe

-----------------------------------------------------------------------------
(* Operations *)

\* A public function is called: the future is created and nothing has run.
Invoke(c, call) ==
    /\ pc[c] = "idle"
    /\ pc' = [pc EXCEPT ![c] = "issued"]
    /\ op' = [op EXCEPT ![c] = call]
    /\ UNCHANGED <<made, fanout, probe, endpoints, params, eps, idx, errors, result, timer, net, log>>

\* A variant of Returned that hands a watch first_ok's Err as it is.
ReturnedUnmapped(call, res) == res

\* What the call hands its caller for first_ok's (or the preamble's) Result:
\* watch maps an Err through WatchError::Other, every other call passes it on.
Returned(call, res) ==
    IF call.fn = "watch" /\ res.tag = "Err" THEN WatchOther(res.errors) ELSE res

\* A variant of Enter that starts at the second endpoint once a call on the
\* client has succeeded there or later.
EnterSticky(c) ==
    /\ pc[c] = "issued"
    /\ LET pre == Preamble(op[c])
           start == IF \E d \in DOMAIN pc :
                            pc[d] = "done" /\ result[d].tag = "Ok" /\ idx[d] > 1
                        THEN 2 ELSE 1
       IN
        IF pre.tag = "Err"
        THEN /\ result' = [result EXCEPT ![c] = Returned(op[c], pre)]
             /\ pc' = [pc EXCEPT ![c] = "done"]
             /\ UNCHANGED <<params, eps, idx, errors, timer>>
        ELSE /\ params' = [params EXCEPT ![c] = pre.value]
             /\ eps' = [eps EXCEPT ![c] = endpoints]
             /\ errors' = [errors EXCEPT ![c] = <<>>]
             /\ idx' = [idx EXCEPT ![c] = start]
             /\ pc' = [pc EXCEPT ![c] = "loop"]
             /\ timer' = [timer EXCEPT ![c] =
                            IF IsSome(op[c].timeout) THEN "armed" ELSE "off"]
             /\ UNCHANGED result
    /\ UNCHANGED <<made, fanout, probe, endpoints, op, net, log>>

\* A variant of Enter that arms a timer for every call.
EnterArmed(c) ==
    /\ pc[c] = "issued"
    /\ LET pre == Preamble(op[c]) IN
        IF pre.tag = "Err"
        THEN /\ result' = [result EXCEPT ![c] = Returned(op[c], pre)]
             /\ pc' = [pc EXCEPT ![c] = "done"]
             /\ UNCHANGED <<params, eps, idx, errors, timer>>
        ELSE /\ params' = [params EXCEPT ![c] = pre.value]
             /\ eps' = [eps EXCEPT ![c] = endpoints]
             /\ errors' = [errors EXCEPT ![c] = <<>>]
             /\ idx' = [idx EXCEPT ![c] = 1]
             /\ pc' = [pc EXCEPT ![c] = "loop"]
             /\ timer' = [timer EXCEPT ![c] = "armed"]
             /\ UNCHANGED result
    /\ UNCHANGED <<made, fanout, probe, endpoints, op, net, log>>

\* First poll: watch arms its timer, the raw_* function builds its parameters
\* and either fails validation or enters first_ok with an empty accumulator.
Enter(c) ==
    /\ pc[c] = "issued"
    /\ LET pre == Preamble(op[c]) IN
        IF pre.tag = "Err"
        THEN /\ result' = [result EXCEPT ![c] = Returned(op[c], pre)]
             /\ pc' = [pc EXCEPT ![c] = "done"]
             /\ UNCHANGED <<params, eps, idx, errors, timer>>
        ELSE /\ params' = [params EXCEPT ![c] = pre.value]
             /\ eps' = [eps EXCEPT ![c] = endpoints]
             /\ errors' = [errors EXCEPT ![c] = <<>>]
             /\ idx' = [idx EXCEPT ![c] = 1]
             /\ pc' = [pc EXCEPT ![c] = "loop"]
             /\ timer' = [timer EXCEPT ![c] =
                            IF IsSome(op[c].timeout) THEN "armed" ELSE "off"]
             /\ UNCHANGED result
    /\ UNCHANGED <<made, fanout, probe, endpoints, op, net, log>>

\* A variant of Push that puts the newest error first.
PushFront(errs, err) == <<err>> \o errs

\* A variant of Push that keeps only the newest error.
PushOnly(errs, err) == <<err>>

\* first_ok's accumulator after a failed callback.
Push(errs, err) == Append(errs, err)

\* A variant of Match that does not return on Ok: the loop moves on.
MatchWithoutReturn(c, out) ==
    /\ errors' = [errors EXCEPT ![c] =
                    IF out.tag = "Ok" THEN @ ELSE Push(@, out.error)]
    /\ idx' = [idx EXCEPT ![c] = idx[c] + 1]
    /\ pc' = [pc EXCEPT ![c] = "loop"]
    /\ UNCHANGED <<result, timer>>

\* A variant of Match that gives up on an application error instead of moving on.
MatchStoppingOnApi(c, out) ==
    IF out.tag = "Ok" \/ out.error.kind = "Api"
    THEN /\ result' = [result EXCEPT ![c] =
                        Returned(op[c],
                                 IF out.tag = "Ok" THEN OkResult(out.value)
                                 ELSE ErrResult(Push(errors[c], out.error)))]
         /\ pc' = [pc EXCEPT ![c] = "done"]
         /\ timer' = [timer EXCEPT ![c] = "off"]
         /\ UNCHANGED <<errors, idx>>
    ELSE /\ errors' = [errors EXCEPT ![c] = Push(errors[c], out.error)]
         /\ idx' = [idx EXCEPT ![c] = idx[c] + 1]
         /\ pc' = [pc EXCEPT ![c] = "loop"]
         /\ UNCHANGED <<result, timer>>

\* A variant of Match that returns the errors collected so far with the Ok.
MatchKeepingErrors(c, out) ==
    IF out.tag = "Ok"
    THEN /\ result' = [result EXCEPT ![c] =
                        [Returned(op[c], OkResult(out.value)) EXCEPT !.errors = errors[c]]]
         /\ pc' = [pc EXCEPT ![c] = "done"]
         /\ timer' = [timer EXCEPT ![c] = "off"]
         /\ UNCHANGED <<errors, idx>>
    ELSE /\ errors' = [errors EXCEPT ![c] = Push(errors[c], out.error)]
         /\ idx' = [idx EXCEPT ![c] = idx[c] + 1]
         /\ pc' = [pc EXCEPT ![c] = "loop"]
         /\ UNCHANGED <<result, timer>>

\* A variant of Match that goes round: after an error on the last endpoint
\* the loop starts again at the first.
MatchGoingRound(c, out) ==
    IF out.tag = "Ok"
    THEN /\ result' = [result EXCEPT ![c] = Returned(op[c], OkResult(out.value))]
         /\ pc' = [pc EXCEPT ![c] = "done"]
         /\ timer' = [timer EXCEPT ![c] = "off"]
         /\ UNCHANGED <<errors, idx>>
    ELSE /\ errors' = [errors EXCEPT ![c] = Push(errors[c], out.error)]
         /\ idx' = [idx EXCEPT ![c] = IF idx[c] = Len(eps[c]) THEN 1 ELSE idx[c] + 1]
         /\ pc' = [pc EXCEPT ![c] = "loop"]
         /\ UNCHANGED <<result, timer>>

\* A variant of Match that tries the same endpoint again after an error.
MatchRetrying(c, out) ==
    IF out.tag = "Ok"
    THEN /\ result' = [result EXCEPT ![c] = Returned(op[c], OkResult(out.value))]
         /\ pc' = [pc EXCEPT ![c] = "done"]
         /\ timer' = [timer EXCEPT ![c] = "off"]
         /\ UNCHANGED <<errors, idx>>
    ELSE /\ errors' = [errors EXCEPT ![c] = Push(errors[c], out.error)]
         /\ pc' = [pc EXCEPT ![c] = "loop"]
         /\ UNCHANGED <<result, timer, idx>>

\* A variant of Match that pushes the error into the accumulator of every call.
MatchSharingErrors(c, out) ==
    IF out.tag = "Ok"
    THEN /\ result' = [result EXCEPT ![c] = Returned(op[c], OkResult(out.value))]
         /\ pc' = [pc EXCEPT ![c] = "done"]
         /\ timer' = [timer EXCEPT ![c] = "off"]
         /\ UNCHANGED <<errors, idx>>
    ELSE /\ errors' = [d \in DOMAIN errors |-> Push(errors[d], out.error)]
         /\ idx' = [idx EXCEPT ![c] = idx[c] + 1]
         /\ pc' = [pc EXCEPT ![c] = "loop"]
         /\ UNCHANGED <<result, timer>>

\* first_ok's match on the Result a callback returned: Ok returns it at once,
\* Err is pushed and the loop moves on.
Match(c, out) ==
    IF out.tag = "Ok"
    THEN /\ result' = [result EXCEPT ![c] = Returned(op[c], OkResult(out.value))]
         /\ pc' = [pc EXCEPT ![c] = "done"]
         /\ timer' = [timer EXCEPT ![c] = "off"]
         /\ UNCHANGED <<errors, idx>>
    ELSE /\ errors' = [errors EXCEPT ![c] = Push(errors[c], out.error)]
         /\ idx' = [idx EXCEPT ![c] = idx[c] + 1]
         /\ pc' = [pc EXCEPT ![c] = "loop"]
         /\ UNCHANGED <<result, timer>>

\* A variant of CanAttempt that does not wait for the callback in progress.
CanAttemptEagerly(c) == pc[c] \in {"loop", "await"} /\ idx[c] <= Len(eps[c])

\* A variant of CanAttempt for a failover that outlives the Timeout of its
\* watch, as a spawned task would.
CanAttemptAfterTimeout(c) ==
    /\ idx[c] <= Len(eps[c])
    /\ (pc[c] = "loop" \/ (pc[c] = "done" /\ result[c] = WatchTimeout))

\* first_ok takes the next endpoint when the loop is between two callbacks.
CanAttempt(c) == pc[c] = "loop" /\ idx[c] <= Len(eps[c])

\* The loop invokes the callback on the next endpoint: the callback builds the
\* URI and either fails there, before anything is sent, or sends its request
\* and suspends.  A request may be one the endpoint never answers (lost).
Attempt(c) ==
    /\ CanAttempt(c)
    /\ LET k == idx[c]
           uri == BuildUri(eps[c][k], op[c].key)
       IN
        \/ /\ uri.tag = "Err"
           /\ log' = [log EXCEPT ![c] =
                        @ \o <<Attempted(k), Returns(k, uri)>>]
           /\ Match(c, uri)
           /\ UNCHANGED net
        \/ /\ uri.tag = "Ok"
           /\ log' = [log EXCEPT ![c] =
                        @ \o <<Attempted(k),
                               Sent(k, Request(op[c], uri.value, params[c]))>>]
           /\ \E lost \in BOOLEAN :
                net' = [net EXCEPT ![c] = @ \cup {[pos |-> k, lost |-> lost]}]
           /\ pc' = [pc EXCEPT ![c] = "await"]
           /\ UNCHANGED <<errors, idx, result, timer>>
    /\ UNCHANGED <<made, fanout, probe, endpoints, op, params, eps>>

\* A variant of Complete that also delivers to a call that has returned.
CompleteLate(c, reply) ==
    /\ pc[c] \in {"await", "done"}
    /\ \E r \in net[c] :
        /\ r.pos = idx[c]
        /\ ~r.lost
        /\ net' = [net EXCEPT ![c] = @ \ {r}]
    /\ LET out == HandleResponse(op[c], reply) IN
        /\ log' = [log EXCEPT ![c] = Append(@, Returns(idx[c], out))]
        /\ Match(c, out)
    /\ UNCHANGED <<made, fanout, probe, endpoints, op, params, eps>>

\* The transport answers the request the call is suspended on; the callback
\* maps the answer to its Result and first_ok matches on it.
Complete(c, reply) ==
    /\ pc[c] = "await"
    /\ \E r \in net[c] :
        /\ r.pos = idx[c]
        /\ ~r.lost
        /\ net' = [net EXCEPT ![c] = @ \ {r}]
    /\ LET out == HandleResponse(op[c], reply) IN
        /\ log' = [log EXCEPT ![c] = Append(@, Returns(idx[c], out))]
        /\ Match(c, out)
    /\ UNCHANGED <<made, fanout, probe, endpoints, op, params, eps>>

\* The loop has run out of endpoints: first_ok returns the accumulated errors.
Exhaust(c) ==
    /\ pc[c] = "loop"
    /\ idx[c] > Len(eps[c])
    /\ result' = [result EXCEPT ![c] = Returned(op[c], ErrResult(errors[c]))]
    /\ pc' = [pc EXCEPT ![c] = "done"]
    /\ timer' = [timer EXCEPT ![c] = "off"]
    /\ UNCHANGED <<made, fanout, probe, endpoints, op, params, eps, idx, errors, net, log>>

\* A variant of Elapse that reports the timeout and lets the failover go on.
ElapseKeepsRunning(c) ==
    /\ timer[c] = "armed"
    /\ pc[c] = "await"
    /\ result' = [result EXCEPT ![c] = WatchTimeout]
    /\ timer' = [timer EXCEPT ![c] = "fired"]
    /\ UNCHANGED <<made, fanout, probe, endpoints, pc, op, params, eps, idx, errors, net, log>>

\* A variant of Elapse that also fires between two callbacks of the failover.
ElapseInLoop(c) ==
    /\ timer[c] = "armed"
    /\ pc[c] \in {"loop", "await"}
    /\ result' = [result EXCEPT ![c] = WatchTimeout]
    /\ pc' = [pc EXCEPT ![c] = "done"]
    /\ timer' = [timer EXCEPT ![c] = "fired"]
    /\ UNCHANGED <<made, fanout, probe, endpoints, op, params, eps, idx, errors, net, log>>

\* A variant of Elapse that does not ask whether the call has a timer.
ElapseUnarmed(c) ==
    /\ pc[c] = "await"
    /\ result' = [result EXCEPT ![c] = WatchTimeout]
    /\ pc' = [pc EXCEPT ![c] = "done"]
    /\ timer' = [timer EXCEPT ![c] = "fired"]
    /\ UNCHANGED <<made, fanout, probe, endpoints, op, params, eps, idx, errors, net, log>>

\* The watch's timer fires while the failover is suspended: the watch returns
\* WatchError::Timeout and drops the failover where it stands.
Elapse(c) ==
    /\ timer[c] = "armed"
    /\ pc[c] = "await"
    /\ result' = [result EXCEPT ![c] = WatchTimeout]
    /\ pc' = [pc EXCEPT ![c] = "done"]
    /\ timer' = [timer EXCEPT ![c] = "fired"]
    /\ UNCHANGED <<made, fanout, probe, endpoints, op, params, eps, idx, errors, net, log>>

\* The request of a dropped failover leaves the wire; nothing awaits its answer.
Discard(c) ==
    /\ pc[c] = "done"
    /\ net[c] # {}
    /\ net' = [net EXCEPT ![c] = {}]
    /\ UNCHANGED <<made, fanout, probe, endpoints, pc, op, params, eps, idx, errors, result, timer, log>>

\* The caller is done with the result: the future and all it owned are gone,
\* and the slot is free for the next call on the same client.
Drop(c) ==
    /\ pc[c] = "done"
    /\ net[c] = {}
    /\ pc' = [pc EXCEPT ![c] = "idle"]
    /\ op' = [op EXCEPT ![c] = NoCall]
    /\ params' = [params EXCEPT ![c] = NoParams]
    /\ eps' = [eps EXCEPT ![c] = <<>>]
    /\ idx' = [idx EXCEPT ![c] = 0]
    /\ errors' = [errors EXCEPT ![c] = <<>>]
    /\ result' = [result EXCEPT ![c] = Pending]
    /\ timer' = [timer EXCEPT ![c] = "off"]
    /\ log' = [log EXCEPT ![c] = <<>>]
    /\ UNCHANGED <<made, fanout, probe, endpoints, net>>

Next ==
    \E c \in Calls :
        \/ \E call \in Invocations : Invoke(c, call)
        \/ Enter(c)
        \/ Attempt(c)
        \/ \E reply \in Replies : Complete(c, reply)
        \/ Exhaust(c)
        \/ Elapse(c)
        \/ Discard(c)
        \/ Drop(c)

Spec == Init /\ [][Next]_vars

\* The runtime fires an armed timer whose watch stays suspended.
LiveSpec == Spec /\ \A c \in Calls : WF_vars(Elapse(c))


-----------------------------------------------------------------------------
(* Reading the instrumentation *)

\* The positions of the events of kind ev in call c's log.
At(c, ev) == {n \in 1..Len(log[c]) : log[c][n].ev = ev}

\* The callbacks that returned Ok / Err, as positions in the log.
OkReturns(c) == {n \in At(c, "return") : log[c][n].out.tag = "Ok"}

ErrReturns(c) == {n \in At(c, "return") : log[c][n].out.tag = "Err"}

\* The endpoint positions the call invoked its callback on.
AttemptedPositions(c) == {log[c][n].pos : n \in At(c, "attempt")}

\* The call went through first_ok (it passed its preamble).
InFailover(c) == pc[c] \in {"loop", "await", "done"} /\ idx[c] >= 1

\* The callback failed on every endpoint of the list.
FailedEverywhere(c) ==
    /\ InFailover(c)
    /\ \A k \in 1..Len(eps[c]) : \E n \in ErrReturns(c) : log[c][n].pos = k

\* The errors the callbacks returned, in the order they returned them.
ReturnedErrors(c) ==
    LET errs == SelectSeq(log[c], LAMBDA e : e.ev = "return" /\ e.out.tag = "Err")
    IN  [n \in 1..Len(errs) |-> errs[n].out.error]

\* The call returned a failure: Err(errors), or for watch Other(errors).
Failed(c) == pc[c] = "done" /\ result[c].tag \in {"Err", "Other"}

-----------------------------------------------------------------------------
(* C1..C6: the failover executor *)

\* C1: when the callback returns Ok on endpoint i, the call is over with that
\* very value as its result, the Ok is the last event of the call, and no
\* position after i was ever attempted.
C1_ShortCircuit ==
    \A c \in Calls : \A n \in OkReturns(c) :
        /\ n = Len(log[c])
        /\ pc[c] = "done"
        /\ result[c] = OkResult(log[c][n].out.value)
        /\ \A k \in AttemptedPositions(c) : k <= log[c][n].pos
        /\ \A m \in ErrReturns(c) : log[c][m].pos < log[c][n].pos

\* A call succeeded on its second endpoint with a third one left untried.
C1_Witness ==
    \E c \in Calls : \E n \in OkReturns(c) :
        /\ log[c][n].pos = 2
        /\ Len(eps[c]) >= 3
        /\ ErrReturns(c) # {}

\* C2: when the callback has failed on every one of the N endpoints and the
\* call has returned, the result is a failure of exactly N errors whose k-th
\* error is the one the callback returned for endpoints[k].
C2_AllFailedInOrder ==
    \A c \in Calls :
        (pc[c] = "done" /\ FailedEverywhere(c)) =>
            /\ result[c].tag \in {"Err", "Other"}
            /\ Len(result[c].errors) = Len(eps[c])
            /\ eps[c] = endpoints
            /\ \A k \in 1..Len(eps[c]) :
                \E n \in ErrReturns(c) :
                    /\ log[c][n].pos = k
                    /\ log[c][n].out.error = result[c].errors[k]

\* A call failed on two or more endpoints with different errors.
C2_Witness ==
    \E c \in Calls :
        /\ pc[c] = "done"
        /\ FailedEverywhere(c)
        /\ Len(eps[c]) >= 2
        /\ result[c].errors[1] # result[c].errors[2]

\* C3: an attempt is either the first event of the call, on position 1, or it
\* directly follows the failed return of the attempt on the position before;
\* at most one attempt has not returned and at most one request is on the wire.
C3_Sequential ==
    \A c \in Calls :
        /\ \A n \in At(c, "attempt") :
            IF n = 1 THEN log[c][n].pos = 1
            ELSE /\ log[c][n - 1].ev = "return"
                 /\ log[c][n - 1].out.tag = "Err"
                 /\ log[c][n - 1].pos + 1 = log[c][n].pos
        /\ Cardinality(At(c, "attempt")) - Cardinality(At(c, "return")) \in {0, 1}
        /\ Cardinality(net[c]) <= 1

\* The second attempt of a call is on the wire, after the first one failed.
C3_Witness ==
    \E c \in Calls :
        /\ pc[c] = "await"
        /\ idx[c] = 2
        /\ net[c] # {}
        /\ Cardinality(At(c, "attempt")) = 2

\* The watch's timer ended the call.
TimedOut(c) == pc[c] = "done" /\ result[c].tag = "Timeout"

\* C4: a failed attempt of any kind on a position before the last is followed
\* by the attempt on the next position (or the loop stands right before it),
\* unless the watch's timer ended the call; a call whose every callback
\* returned the same application error attempted every endpoint and returned
\* that error once per endpoint.
C4_NoRetryabilityCheck ==
    \A c \in Calls :
        /\ \A n \in ErrReturns(c) :
            log[c][n].pos < Len(eps[c]) =>
                \/ /\ n < Len(log[c])
                   /\ log[c][n + 1].ev = "attempt"
                   /\ log[c][n + 1].pos = log[c][n].pos + 1
                \/ /\ n = Len(log[c])
                   /\ pc[c] = "loop"
                   /\ idx[c] = log[c][n].pos + 1
        /\ \A e \in {ErrApi(m) : m \in Contents("ApiError")} :
            (/\ pc[c] = "done"
             /\ ~TimedOut(c)
             /\ At(c, "return") # {}
             /\ \A n \in At(c, "return") : log[c][n].out = Err(e)) =>
                /\ AttemptedPositions(c) = 1..Len(eps[c])
                /\ result[c].tag \in {"Err", "Other"}
                /\ result[c].errors = [k \in 1..Len(eps[c]) |-> e]

\* A create met "Key already exists" on each of two or more endpoints.
C4_Witness ==
    \E c \in Calls :
        /\ op[c].fn = "create"
        /\ pc[c] = "done"
        /\ Len(eps[c]) >= 2
        /\ result[c] = ErrResult([k \in 1..Len(eps[c]) |-> ErrApi("Key already exists")])

\* C5 as stated: every failure a key-value operation returns holds one error
\* per attempted endpoint, in attempt order.
C5_AsStated ==
    \A c \in Calls :
        Failed(c) =>
            /\ Len(result[c].errors) = Cardinality(AttemptedPositions(c))
            /\ result[c].errors = ReturnedErrors(c)

\* C5, amended: every failure returned by a call that passed its condition
\* validation holds one error per attempted endpoint, in attempt order; the
\* failure of a call that did not pass it is the one-element list
\* [InvalidConditions], with no endpoint attempted.
C5_OneErrorPerAttempt ==
    \A c \in Calls :
        Failed(c) =>
            IF InFailover(c)
            THEN /\ Len(result[c].errors) = Cardinality(AttemptedPositions(c))
                 /\ result[c].errors = ReturnedErrors(c)
                 /\ AttemptedPositions(c) = 1..Len(result[c].errors)
            ELSE /\ result[c].errors = <<ErrInvalidConditions>>
                 /\ AttemptedPositions(c) = {}

\* A delete returned two errors after attempting two endpoints.
C5_Witness ==
    \E c \in Calls :
        /\ Failed(c)
        /\ op[c].raw = "raw_delete"
        /\ InFailover(c)
        /\ Len(result[c].errors) = 2
        /\ AttemptedPositions(c) = {1, 2}

\* C6 as stated (first_ok's doc comment): when every endpoint has failed, the
\* failure returned is the final error, the one of the last endpoint attempted.
C6_FinalErrorOnly ==
    \A c \in Calls :
        (pc[c] = "done" /\ FailedEverywhere(c)) =>
            /\ Len(result[c].errors) = 1
            /\ \E n \in ErrReturns(c) :
                /\ log[c][n].pos = Len(eps[c])
                /\ result[c].errors[1] = log[c][n].out.error


-----------------------------------------------------------------------------
(* C7..C9: condition validation and encoding *)

\* The call carries a condition set with neither field / with some field.
HasEmptyConditions(c) ==
    /\ op[c].raw \in {"raw_set", "raw_delete"}
    /\ IsSome(op[c].options.conditions)
    /\ Unwrap(op[c].options.conditions).value = None
    /\ Unwrap(op[c].options.conditions).modified_index = None

HasConditions(c) ==
    /\ op[c].raw \in {"raw_set", "raw_delete"}
    /\ IsSome(op[c].options.conditions)
    /\ ~HasEmptyConditions(c)

\* The call has been polled.
Started(c) == pc[c] \in {"loop", "await", "done"}

\* The parameters of a request; it carries a parameter named name.
Params(req) == req.query \cup Range(req.body)

HasParam(req, name) == \E p \in Params(req) : p[1] = name

\* C7: once polled, a compare_and_swap, compare_and_delete or refresh whose
\* condition set has neither field is over with the one-element failure
\* [InvalidConditions]; it attempted no endpoint and sent no request,
\* whatever the endpoint list and its other parameters.
C7_FailFast ==
    \A c \in Calls :
        (/\ op[c].fn \in {"compare_and_swap", "compare_and_delete", "refresh"}
         /\ HasEmptyConditions(c)
         /\ Started(c)) =>
            /\ pc[c] = "done"
            /\ result[c] = ErrResult(<<ErrInvalidConditions>>)
            /\ log[c] = <<>>
            /\ net[c] = {}
            /\ idx[c] = 0

\* A refresh with an empty condition set failed on a client of several endpoints.
C7_Witness ==
    \E c \in Calls :
        /\ op[c].fn = "refresh"
        /\ HasEmptyConditions(c)
        /\ Len(endpoints) >= 2
        /\ result[c] = ErrResult(<<ErrInvalidConditions>>)

\* C8: once polled, a conditional write or delete whose condition set has a
\* value, an index or both is inside first_ok over the client's endpoints and
\* has not failed validation; each request it sends carries prevValue (with
\* the given value) exactly when a value is given and prevIndex (with the
\* given index) exactly when an index is given.
C8_EitherFieldPasses ==
    \A c \in Calls :
        (HasConditions(c) /\ Started(c)) =>
            LET cond == Unwrap(op[c].options.conditions) IN
            /\ InFailover(c)
            /\ eps[c] = endpoints
            /\ result[c] # ErrResult(<<ErrInvalidConditions>>)
            /\ \A n \in At(c, "send") :
                LET req == log[c][n].req IN
                /\ HasParam(req, "prevValue") <=> IsSome(cond.value)
                /\ HasParam(req, "prevIndex") <=> IsSome(cond.modified_index)
                /\ IsSome(cond.value) =>
                    <<"prevValue", Unwrap(cond.value)>> \in Params(req)
                /\ IsSome(cond.modified_index) =>
                    <<"prevIndex", ToString(Unwrap(cond.modified_index))>>
                        \in Params(req)

\* A compare_and_swap with a value and an index sent a request.
C8_Witness ==
    \E c \in Calls :
        /\ op[c].fn = "compare_and_swap"
        /\ IsSome(Unwrap(op[c].options.conditions).value)
        /\ IsSome(Unwrap(op[c].options.conditions).modified_index)
        /\ At(c, "send") # {}

\* C9: every request a compare_and_swap or a compare_and_delete sends, on any
\* attempt, carries prevValue or prevIndex.
C9_NeverUnconditional ==
    \A c \in Calls :
        op[c].fn \in {"compare_and_swap", "compare_and_delete"} =>
            \A n \in At(c, "send") :
                \/ HasParam(log[c][n].req, "prevValue")
                \/ HasParam(log[c][n].req, "prevIndex")

\* A compare_and_delete sent its request to a second endpoint.
C9_Witness ==
    \E c \in Calls :
        /\ op[c].fn = "compare_and_delete"
        /\ \E n \in At(c, "send") :
            /\ log[c][n].pos = 2
            /\ log[c][n].req.method = "DELETE"

-----------------------------------------------------------------------------
(* C10: the watch and its timer *)

\* A watch is suspended on a request its endpoint never answers.
WatchUnanswered(c) ==
    /\ op[c].fn = "watch"
    /\ pc[c] = "await"
    /\ \E r \in net[c] : r.pos = idx[c] /\ r.lost

\* C10: a watch with a timeout that is suspended on a request its endpoint
\* never answers leaves that state only by returning WatchError::Timeout, and
\* does return it; a watch without a timeout in the same place stays
\* suspended, with no result.
C10_WatchTimeoutRace ==
    /\ \A c \in Calls :
        (WatchUnanswered(c) /\ IsSome(op[c].timeout))
            ~> (pc[c] = "done" /\ result[c] = WatchTimeout)
    /\ [][\A c \in Calls :
            (WatchUnanswered(c) /\ IsSome(op[c].timeout)) =>
                \/ pc'[c] = "await" /\ result'[c] = Pending
                \/ pc'[c] = "done" /\ result'[c] = WatchTimeout]_vars
    /\ [][\A c \in Calls :
            (WatchUnanswered(c) /\ op[c].timeout = None) =>
                (pc'[c] = "await" /\ result'[c] = Pending)]_vars

\* A watch timed out on a request its endpoint never answers.
C10_Witness ==
    \E c \in Calls :
        /\ op[c].fn = "watch"
        /\ result[c] = WatchTimeout
        /\ \E r \in net[c] : r.lost


-----------------------------------------------------------------------------
(* C11..C14: the terminal states of a watch *)

IsWatch(c) == op[c].fn = "watch"

\* C11: a watch has a result exactly when it is over, and the result is a
\* value alone, Timeout alone or Other(errors) alone; while the watch is over
\* its result stays what it is and its callback is invoked on no endpoint
\* (the log gets no event), until the caller lets go of it.
C11_TerminalOnceAndFinal ==
    /\ [](\A c \in Calls :
            IsWatch(c) =>
                /\ (pc[c] = "done") <=> (result[c] # Pending)
                /\ result[c].tag \in {"Pending", "Ok", "Timeout", "Other"}
                /\ result[c].tag = "Ok" => result[c].errors = <<>>
                /\ result[c].tag = "Timeout" => result[c] = WatchTimeout
                /\ result[c].tag = "Other" => result[c].value = NoValue
                /\ pc[c] = "done" => ~CanAttempt(c))
    /\ [][\A c \in Calls :
            (IsWatch(c) /\ pc[c] = "done") =>
                \/ /\ pc'[c] = "done"
                   /\ op'[c] = op[c]
                   /\ result'[c] = result[c]
                   /\ log'[c] = log[c]
                \/ /\ pc'[c] = "idle"
                   /\ result'[c] = Pending
                   /\ log'[c] = <<>>]_vars

\* A watch resolved on its first endpoint, with another endpoint left untried.
C11_Witness ==
    \E c \in Calls :
        /\ IsWatch(c)
        /\ pc[c] = "done"
        /\ result[c].tag = "Ok"
        /\ idx[c] < Len(eps[c])

\* C12: a watch with a timeout that is over has its timer fired exactly when
\* its result is Timeout, and never armed.  After Timeout the result stays
\* Timeout and no callback returns (a response still on the wire is not
\* delivered); after a value or a failure the timer does not fire and the
\* result does not become Timeout.
C12_LoserDiscarded ==
    /\ [](\A c \in Calls :
            (IsWatch(c) /\ IsSome(op[c].timeout) /\ pc[c] = "done") =>
                /\ timer[c] \in {"off", "fired"}
                /\ (timer[c] = "fired") <=> (result[c] = WatchTimeout)
                /\ (timer[c] = "off") <=> (result[c].tag \in {"Ok", "Other"})
                /\ result[c].tag \in {"Ok", "Other"} => net[c] = {})
    /\ [][\A c \in Calls :
            (IsWatch(c) /\ TimedOut(c) /\ pc'[c] = "done") =>
                /\ result'[c] = WatchTimeout
                /\ log'[c] = log[c]
                /\ net'[c] \subseteq net[c]]_vars
    /\ [][\A c \in Calls :
            (/\ IsWatch(c)
             /\ pc[c] = "done"
             /\ result[c].tag \in {"Ok", "Other"}
             /\ pc'[c] = "done") =>
                /\ result'[c] = result[c]
                /\ timer'[c] = "off"]_vars

\* A watch timed out with a request on the wire that its endpoint will answer.
C12_Witness ==
    \E c \in Calls :
        /\ IsWatch(c)
        /\ TimedOut(c)
        /\ \E r \in net[c] : ~r.lost

\* C13: a watch without a timeout never has a timer and never returns
\* Timeout; every request it sends is a long-poll read (GET with wait=true);
\* when it is over, its result is the value of the callback that returned
\* Ok, or, when none did, Other carrying the errors of all the endpoints in
\* the order the callbacks returned them.
C13_NoTimeoutIsFailover ==
    \A c \in Calls :
        (IsWatch(c) /\ op[c].timeout = None) =>
            /\ timer[c] = "off"
            /\ result[c].tag # "Timeout"
            /\ \A n \in At(c, "send") :
                /\ log[c][n].req.method = "GET"
                /\ <<"wait", "true">> \in log[c][n].req.query
            /\ pc[c] = "done" =>
                IF OkReturns(c) # {}
                THEN \E n \in OkReturns(c) :
                        result[c] = OkResult(log[c][n].out.value)
                ELSE /\ result[c] = WatchOther(ReturnedErrors(c))
                     /\ Len(result[c].errors) = Len(endpoints)
                     /\ FailedEverywhere(c)

\* A watch without a timeout failed on each of two or more endpoints.
C13_Witness ==
    \E c \in Calls :
        /\ IsWatch(c)
        /\ op[c].timeout = None
        /\ result[c].tag = "Other"
        /\ Len(result[c].errors) >= 2

\* C14: the result of a watch becomes Timeout only in a step in which its
\* armed timer fires; a watch that returned Timeout has an attempt that did
\* not return and no Ok; a watch whose callback failed on every endpoint
\* returns Other with those errors in attempt order, none of them a timeout,
\* and its timer did not fire.
C14_TimeoutDistinct ==
    /\ [](\A c \in Calls :
            IsWatch(c) =>
                /\ result[c].tag = "Timeout" =>
                    /\ IsSome(op[c].timeout)
                    /\ timer[c] = "fired"
                    /\ Cardinality(At(c, "attempt")) = Cardinality(At(c, "return")) + 1
                    /\ OkReturns(c) = {}
                    /\ ~FailedEverywhere(c)
                /\ (pc[c] = "done" /\ FailedEverywhere(c)) =>
                    /\ result[c] = WatchOther(ReturnedErrors(c))
                    /\ Len(result[c].errors) = Len(eps[c])
                    /\ timer[c] = "off"
                /\ \A k \in 1..Len(result[c].errors) :
                    result[c].errors[k].kind
                        \in {"InvalidUri", "Http", "Serialization", "Api"})
    /\ [][\A c \in Calls :
            (result'[c].tag = "Timeout" /\ result[c].tag # "Timeout") =>
                /\ IsWatch(c)
                /\ timer[c] = "armed"
                /\ timer'[c] = "fired"]_vars

\* A watch with a timeout failed on each of two or more endpoints.
C14_Witness ==
    \E c \in Calls :
        /\ IsWatch(c)
        /\ IsSome(op[c].timeout)
        /\ pc[c] = "done"
        /\ FailedEverywhere(c)
        /\ Len(eps[c]) >= 2


-----------------------------------------------------------------------------
(* The client's constructor and its status streams (health, versions) *)

StatusFns == {"health", "versions"}

\* The path and the response type of a status function.
StatusPath(fn) == IF fn = "health" THEN "health" ELSE "version"

StatusType(fn) == IF fn = "health" THEN "Health" ELSE "VersionInfo"

\* build_url: the endpoint followed by the path, parsed as a URI.  Every
\* endpoint a client of the model holds is an absolute URI ending in "/",
\* for which the parse succeeds.
BuildUrl(endpoint, path) == Ok(endpoint \o path)

\* What a member answers a status request: nothing (the transport fails),
\* 200 with the document of the function, or another status with an error
\* document.
StatusContent(fn) == IF fn = "health" THEN "true" ELSE "2.3.8"

StatusReplies(fn) ==
    {TransportFailure,
     [arrived |-> TRUE, status |-> StatusOK, body |-> StatusType(fn),
      content |-> StatusContent(fn)]}
    \cup {[arrived |-> TRUE, status |-> s, body |-> "ApiError", content |-> "Not found"] :
            s \in OtherStatuses}

\* Client::request, from the transport's answer on.
RequestResponse(type, reply) ==
    IF ~reply.arrived THEN Err(ErrHttp)
    ELSE IF reply.status = StatusOK
        THEN IF FromSlice(type, reply)
                THEN Ok([data |-> reply.content])
                ELSE Err(ErrSerialization)
        ELSE IF FromSlice("ApiError", reply)
                THEN Err(ErrApi(reply.content))
                ELSE Err(ErrSerialization)

\* A variant of Targets that leaves the last endpoint out.
TargetsButLast(list) == 1..(Len(list) - 1)

\* The endpoint positions the stream maps a status future over.
Targets(list) == 1..Len(list)

\* A variant of NextItem that hands over the completed item of the lowest
\* endpoint position (as buffered would).
NextItemBuffered(done, given) ==
    LET rest == {n \in 1..Len(done) : done[n] \notin Range(given)}
    IN  done[CHOOSE n \in rest : \A m \in rest : done[n].pos <= done[m].pos]

\* The item buffer_unordered hands its consumer next: the oldest completed
\* future it has not handed over.
NextItem(done, given) == done[Len(given) + 1]

ClientInit ==
    /\ endpoints = <<>>
    /\ made = NoOutcome
    /\ NoCalls
    /\ NoFanout
    /\ NoProbe

\* Client::custom is called on a list of endpoint strings.
New(input) ==
    /\ made = NoOutcome
    /\ arg' = input
    /\ made' = Custom(input)
    /\ endpoints' = IF made'.tag = "Ok" THEN made'.value.endpoints ELSE <<>>
    /\ UNCHANGED <<kv, fanout, ret>>

\* A variant of Status that sends the requests when the stream is built.
StatusEager(fn) ==
    /\ made.tag = "Ok"
    /\ stream = NoStream
    /\ stream' = [fn |-> fn, phase |-> "created"]
    /\ requested' = [k \in Targets(endpoints) |->
                        [pos |-> k, uri |-> BuildUrl(endpoints[k], StatusPath(fn)).value]]
    /\ inflight' = Targets(endpoints)
    /\ UNCHANGED <<endpoints, kv, made, completed, yielded, probe>>

\* health() or versions() is called on the client: the stream is built and
\* nothing has run.
Status(fn) ==
    /\ made.tag = "Ok"
    /\ stream = NoStream
    /\ stream' = [fn |-> fn, phase |-> "created"]
    /\ UNCHANGED <<endpoints, kv, made, inflight, requested, completed, yielded, probe>>

\* The consumer polls the stream for the first time: buffer_unordered, whose
\* capacity is the number of endpoints, takes every future of the mapped
\* iterator and polls each once, in endpoint order; a future whose URL is
\* built sends its request, one whose URL is not completes with that error.
Fill ==
    /\ stream.phase = "created"
    /\ LET url == [k \in Targets(endpoints) |->
                    BuildUrl(endpoints[k], StatusPath(stream.fn))]
           order == [k \in Targets(endpoints) |-> k]
           sent == SelectSeq(order, LAMBDA k : url[k].tag = "Ok")
           failed == SelectSeq(order, LAMBDA k : url[k].tag = "Err")
       IN
        /\ requested' = [n \in 1..Len(sent) |->
                            [pos |-> sent[n], uri |-> url[sent[n]].value]]
        /\ inflight' = Range(sent)
        /\ completed' = [n \in 1..Len(failed) |->
                            [pos |-> failed[n], out |-> url[failed[n]]]]
    /\ stream' = [stream EXCEPT !.phase = "open"]
    /\ UNCHANGED <<endpoints, kv, made, yielded, probe>>

\* The status request to position k is answered (or fails in the transport):
\* its future is woken with its Result.
Finish(k, reply) ==
    /\ stream.phase = "open"
    /\ k \in inflight
    /\ inflight' = inflight \ {k}
    /\ completed' = Append(completed,
                           [pos |-> k,
                            out |-> RequestResponse(StatusType(stream.fn), reply)])
    /\ UNCHANGED <<endpoints, kv, made, stream, requested, yielded, probe>>

\* A variant of Yield that hands the items over in endpoint order (as buffered
\* would): an item waits for those of all lower positions.
YieldInOrder ==
    /\ stream.phase = "open"
    /\ \E n \in 1..Len(completed) :
        /\ completed[n].pos = Len(yielded) + 1
        /\ yielded' = Append(yielded, completed[n])
    /\ UNCHANGED <<endpoints, kv, made, stream, inflight, requested, completed, probe>>

\* The consumer's next() gets an item.
Yield ==
    /\ stream.phase = "open"
    /\ Len(yielded) < Len(completed)
    /\ yielded' = Append(yielded, NextItem(completed, yielded))
    /\ UNCHANGED <<endpoints, kv, made, stream, inflight, requested, completed, probe>>

\* The consumer's next() gets None: no future is left.
End ==
    /\ stream.phase = "open"
    /\ inflight = {}
    /\ Len(yielded) = Len(completed)
    /\ stream' = [stream EXCEPT !.phase = "ended"]
    /\ UNCHANGED <<endpoints, kv, made, inflight, requested, completed, yielded, probe>>

\* The consumer drops the stream, consumed or not, with all it owned.
DropStream ==
    /\ stream # NoStream
    /\ stream' = NoStream
    /\ inflight' = {}
    /\ requested' = <<>>
    /\ completed' = <<>>
    /\ yielded' = <<>>
    /\ UNCHANGED <<endpoints, kv, made, probe>>

ClientNext ==
    \/ \E input \in EndpointInputs : New(input)
    \/ \E fn \in StatusFns : Status(fn)
    \/ Fill
    \/ \E k \in 1..MaxEndpoints, reply \in StatusReplies(stream.fn) : Finish(k, reply)
    \/ Yield
    \/ End
    \/ DropStream

ClientSpec == ClientInit /\ [][ClientNext]_vars


-----------------------------------------------------------------------------
(* C15..C17: the status streams and the constructor *)

\* The endpoint positions of the items of a sequence.
Positions(items) == {items[n].pos : n \in 1..Len(items)}

\* C15: a polled status stream has sent one request per endpoint position,
\* position k to endpoints[k] with the path of its function, and no other;
\* every position is either on the wire or completed, never both and never
\* completed twice; a stream consumed to its end has yielded exactly N
\* items, one per position.
C15_FanOutReachesAll ==
    stream.phase \in {"open", "ended"} =>
        LET N == Len(endpoints) IN
        /\ Len(requested) = N
        /\ \A k \in 1..N :
            requested[k] = [pos |-> k,
                           uri |-> endpoints[k] \o StatusPath(stream.fn)]
        /\ inflight \cup Positions(completed) = 1..N
        /\ inflight \cap Positions(completed) = {}
        /\ Cardinality(Positions(completed)) = Len(completed)
        /\ stream.phase = "ended" =>
            /\ Len(yielded) = N
            /\ Positions(yielded) = 1..N

\* A stream over three endpoints was consumed to its end, with both
\* successes and failures among its items.
C15_Witness ==
    /\ stream.phase = "ended"
    /\ Len(endpoints) = 3
    /\ Len(yielded) = 3
    /\ \E n, m \in 1..3 : yielded[n].out.tag = "Ok" /\ yielded[m].out.tag = "Err"

\* C16: the items yielded are the completed futures in the order of their
\* completion: of two yielded items, the one whose request completed first
\* was yielded first, whatever their endpoint positions.
C16_CompletionOrder ==
    /\ Len(yielded) <= Len(completed)
    /\ \A n \in 1..Len(yielded) : yielded[n] = completed[n]
    /\ \A a, b \in 1..Len(completed), n, m \in 1..Len(yielded) :
        (/\ a < b
         /\ yielded[n].pos = completed[a].pos
         /\ yielded[m].pos = completed[b].pos) => n < m

\* The request to position 3 completed before the one to position 1, and
\* both items were yielded, 3's first.
C16_Witness ==
    \E n, m \in 1..Len(yielded) :
        /\ n < m
        /\ yielded[n].pos = 3
        /\ yielded[m].pos = 1

\* C17: Client::custom returns Err(NoEndpoints) for the empty list,
\* Err(InvalidUri) for a list with an unparsable string, and a client holding
\* the list otherwise.  After an Err there is no client: no endpoint
\* sequence, no stream, no call, no request.  The constructor step itself
\* sends nothing.  A client that exists holds one or more endpoints.
C17_ConstructionFails ==
    /\ [](made # NoOutcome =>
            /\ Len(arg) = 0 => made = Err(ErrNoEndpoints)
            /\ (Len(arg) > 0 /\ \E i \in 1..Len(arg) : arg[i] \in BadEndpoints) =>
                made = Err(ErrInvalidUri)
            /\ (Len(arg) > 0 /\ \A i \in 1..Len(arg) : arg[i] \in GoodEndpoints) =>
                made = Ok([endpoints |-> arg]))
    /\ [](made.tag = "Err" =>
            /\ endpoints = <<>>
            /\ stream = NoStream
            /\ requested = <<>>
            /\ inflight = {}
            /\ \A c \in Calls : pc[c] = "idle" /\ net[c] = {} /\ log[c] = <<>>)
    /\ [](made.tag = "Ok" =>
            /\ Len(endpoints) >= 1
            /\ endpoints = made.value.endpoints
            /\ \A k \in 1..Len(endpoints) : endpoints[k] \in GoodEndpoints)
    /\ [][made' # made => (requested' = requested /\ inflight' = inflight /\ net' = net)]_vars

\* Construction failed on a list whose second string is not a URI.
C17_Witness ==
    /\ made = Err(ErrInvalidUri)
    /\ Len(arg) >= 2
    /\ arg[1] \in GoodEndpoints
    /\ arg[2] \in BadEndpoints


-----------------------------------------------------------------------------
(* Response headers and ClusterInfo *)

XETCD_CLUSTER_ID == "X-Etcd-Cluster-Id"

XETCD_INDEX == "X-Etcd-Index"

XRAFT_INDEX == "X-Raft-Index"

XRAFT_TERM == "X-Raft-Term"

HeaderNames == {XETCD_CLUSTER_ID, XETCD_INDEX, XRAFT_INDEX, XRAFT_TERM}

\* A header value is a sequence of bytes: "7" is a digit, "x" a letter, "+"
\* the plus sign and "FF" a byte that no UTF-8 string contains.
HeaderValues == {<<>>, <<"7">>, <<"x">>, <<"FF">>, <<"+", "7">>, <<"7", "7">>}

\* A HeaderMap over the four names; None is a header the response lacks.
HeaderMaps == [HeaderNames -> OptOf(HeaderValues)]

NoHeaders == [name \in HeaderNames |-> None]

\* String::from_utf8.
FromUtf8(bytes) ==
    IF \E i \in 1..Len(bytes) : bytes[i] = "FF" THEN Err(ErrSerialization)
    ELSE Ok(bytes)

IsDigit(byte) == byte \in {"7"}

DigitValue(byte) == CASE byte = "7" -> 7

RECURSIVE DigitsValue(_)
DigitsValue(digits) ==
    IF digits = <<>> THEN 0
    ELSE 10 * DigitsValue(SubSeq(digits, 1, Len(digits) - 1))
            + DigitValue(digits[Len(digits)])

\* str::parse::<u64>: an optional "+", then one or more digits.  (The values
\* of the model are far below 2^64.)
ParseU64(string) ==
    LET digits == IF string # <<>> /\ string[1] = "+" THEN Tail(string) ELSE string
    IN  IF digits = <<>> \/ \E i \in 1..Len(digits) : ~IsDigit(digits[i])
            THEN Err(ErrSerialization)
            ELSE Ok(DigitsValue(digits))

\* headers.get(name).and_then(...) for the cluster id: the string, when the
\* header is there and is UTF-8.
ClusterIdFrom(headers) ==
    IF headers[XETCD_CLUSTER_ID] = None THEN None
    ELSE LET string == FromUtf8(Unwrap(headers[XETCD_CLUSTER_ID]))
         IN  IF string.tag = "Ok" THEN Some(string.value) ELSE None

\* headers.get(name).and_then(...) for one of the three numbers: the number,
\* when the header is there, is UTF-8 and parses as u64.
NumberFrom(headers, name) ==
    IF headers[name] = None THEN None
    ELSE LET string == FromUtf8(Unwrap(headers[name]))
         IN  IF string.tag = "Err" THEN None
             ELSE LET number == ParseU64(string.value)
                  IN  IF number.tag = "Ok" THEN Some(number.value) ELSE None

\* A variant of ClusterInfoFrom that gives up every field when one header
\* that is there does not decode.
ClusterInfoAllOrNothing(headers) ==
    IF \/ (headers[XETCD_CLUSTER_ID] # None /\ ClusterIdFrom(headers) = None)
       \/ \E name \in HeaderNames \ {XETCD_CLUSTER_ID} :
            headers[name] # None /\ NumberFrom(headers, name) = None
    THEN [cluster_id |-> None, etcd_index |-> None,
          raft_index |-> None, raft_term |-> None]
    ELSE [cluster_id |-> ClusterIdFrom(headers),
          etcd_index |-> NumberFrom(headers, XETCD_INDEX),
          raft_index |-> NumberFrom(headers, XRAFT_INDEX),
          raft_term |-> NumberFrom(headers, XRAFT_TERM)]

\* impl From<&HeaderMap> for ClusterInfo.
ClusterInfoFrom(headers) ==
    [cluster_id |-> ClusterIdFrom(headers),
     etcd_index |-> NumberFrom(headers, XETCD_INDEX),
     raft_index |-> NumberFrom(headers, XRAFT_INDEX),
     raft_term |-> NumberFrom(headers, XRAFT_TERM)]

NoClusterInfo ==
    [cluster_id |-> None, etcd_index |-> None, raft_index |-> None,
     raft_term |-> None]

\* A header of the map is there and does not decode.
Malformed(headers) ==
    \/ (headers[XETCD_CLUSTER_ID] # None /\ ClusterIdFrom(headers) = None)
    \/ \E name \in HeaderNames \ {XETCD_CLUSTER_ID} :
        headers[name] # None /\ NumberFrom(headers, name) = None

\* A variant of Respond that fails the attempt on a header that does not decode.
RespondStrict(raw, reply, headers) ==
    LET out == HandleResponse([raw |-> raw], reply)
    IN  IF out.tag = "Err" THEN out
        ELSE IF Malformed(headers) THEN Err(ErrSerialization)
        ELSE Ok([data |-> out.value.data,
                 cluster_info |-> ClusterInfoFrom(headers)])

\* The tail of a raw_* callback on a response with its headers: the Response
\* carries the data and the ClusterInfo read off the headers.
Respond(raw, reply, headers) ==
    LET out == HandleResponse([raw |-> raw], reply)
    IN  IF out.tag = "Err" THEN out
        ELSE Ok([data |-> out.value.data,
                 cluster_info |-> ClusterInfoFrom(headers)])

\* The answers to one attempt: one content per kind of body.
AttemptReplies ==
    {r \in Replies : r.content \in {"", "node1", "Key already exists"}}

RawFns == {"raw_set", "raw_delete", "raw_get"}

\* One attempt of a raw_* callback, from the sending of its request on.
NoAttempt == [phase |-> "sent", info |-> NoClusterInfo, out |-> NoOutcome]

HeaderInit ==
    /\ endpoints = <<>>
    /\ made = NoOutcome
    /\ NoCalls
    /\ NoFanout
    /\ arg \in [raw : RawFns, reply : AttemptReplies, headers : HeaderMaps]
    /\ ret = NoAttempt

\* The transport fails: the callback returns that error.
FailToArrive ==
    /\ ret.phase = "sent"
    /\ ~arg.reply.arrived
    /\ ret' = [ret EXCEPT !.phase = "done",
                           !.out = Respond(arg.raw, arg.reply, arg.headers)]
    /\ UNCHANGED <<endpoints, kv, made, fanout, arg>>

\* The response is there: the callback reads its status and its headers.
ReadHeaders ==
    /\ ret.phase = "sent"
    /\ arg.reply.arrived
    /\ ret' = [ret EXCEPT !.phase = "headers",
                           !.info = ClusterInfoFrom(arg.headers)]
    /\ UNCHANGED <<endpoints, kv, made, fanout, arg>>

\* The body is there: the callback decodes it and returns.
ReadBody ==
    /\ ret.phase = "headers"
    /\ ret' = [ret EXCEPT !.phase = "done",
                           !.out = Respond(arg.raw, arg.reply, arg.headers)]
    /\ UNCHANGED <<endpoints, kv, made, fanout, arg>>

HeaderNext == FailToArrive \/ ReadHeaders \/ ReadBody

HeaderSpec == HeaderInit /\ [][HeaderNext]_vars

-----------------------------------------------------------------------------
(* C18, C19: metadata headers *)

\* The headers with every header but name removed.
Only(headers, name) ==
    [other \in HeaderNames |-> IF other = name THEN headers[name] ELSE None]

\* The values a number header decodes from, with their numbers.
Decimal(value) ==
    CASE value = <<"7">> -> 7
      [] value = <<"+", "7">> -> 7
      [] value = <<"7", "7">> -> 77

\* C18: the ClusterInfo read off a response has, in each field, what its own
\* header alone gives: None when that header is missing or does not decode
\* (bytes that are not UTF-8; for a number, anything but digits after an
\* optional sign), the string or the number otherwise, whatever the other
\* three headers are.
C18_FieldsIndependent ==
    ret.phase \in {"headers", "done"} /\ arg.reply.arrived =>
        LET h == arg.headers
            field == [name \in HeaderNames |->
                        CASE name = XETCD_CLUSTER_ID -> ret.info.cluster_id
                          [] name = XETCD_INDEX -> ret.info.etcd_index
                          [] name = XRAFT_INDEX -> ret.info.raft_index
                          [] name = XRAFT_TERM -> ret.info.raft_term]
            alone == [name \in HeaderNames |->
                        LET info == ClusterInfoFrom(Only(h, name)) IN
                        CASE name = XETCD_CLUSTER_ID -> info.cluster_id
                          [] name = XETCD_INDEX -> info.etcd_index
                          [] name = XRAFT_INDEX -> info.raft_index
                          [] name = XRAFT_TERM -> info.raft_term]
        IN
        /\ \A name \in HeaderNames : field[name] = alone[name]
        /\ field[XETCD_CLUSTER_ID] =
            IF h[XETCD_CLUSTER_ID] \in {None, Some(<<"FF">>)} THEN None
            ELSE h[XETCD_CLUSTER_ID]
        /\ \A name \in HeaderNames \ {XETCD_CLUSTER_ID} :
            field[name] =
                IF h[name] \in {Some(<<"7">>), Some(<<"+", "7">>), Some(<<"7", "7">>)}
                    THEN Some(Decimal(Unwrap(h[name])))
                    ELSE None

\* A response without a cluster id, with a well-formed etcd index and with a
\* raft index that is no number: the etcd index is read, the other two are None.
C18_Witness ==
    /\ ret.phase = "done"
    /\ arg.headers[XETCD_CLUSTER_ID] = None
    /\ arg.headers[XETCD_INDEX] = Some(<<"7", "7">>)
    /\ arg.headers[XRAFT_INDEX] = Some(<<"x">>)
    /\ ret.info.cluster_id = None
    /\ ret.info.etcd_index = Some(77)
    /\ ret.info.raft_index = None

\* C19: what an attempt returns is, up to the ClusterInfo of a success, what
\* it returns on the same answer without any header: the same error, or a
\* success with the same data; the ClusterInfo of a success is the one read
\* off the headers, with None in the fields whose header does not decode.
C19_HeadersNeverFail ==
    ret.phase = "done" =>
        LET bare == Respond(arg.raw, arg.reply, NoHeaders) IN
        /\ ret.out.tag = bare.tag
        /\ ret.out.tag \in {"Ok", "Err"}
        /\ ret.out.tag = "Err" => ret.out = bare
        /\ ret.out.tag = "Ok" =>
            /\ ret.out.value.data = bare.value.data
            /\ ret.out.value.data = arg.reply.content
            /\ ret.out.value.cluster_info = ret.info
            /\ \A name \in HeaderNames \ {XETCD_CLUSTER_ID} :
                arg.headers[name] \in {Some(<<>>), Some(<<"x">>), Some(<<"FF">>)} =>
                    NumberFrom(arg.headers, name) = None
            /\ arg.headers[XETCD_INDEX] \in {Some(<<>>), Some(<<"x">>), Some(<<"FF">>)} =>
                ret.out.value.cluster_info.etcd_index = None
            /\ arg.headers[XRAFT_INDEX] \in {Some(<<>>), Some(<<"x">>), Some(<<"FF">>)} =>
                ret.out.value.cluster_info.raft_index = None
            /\ arg.headers[XRAFT_TERM] \in {Some(<<>>), Some(<<"x">>), Some(<<"FF">>)} =>
                ret.out.value.cluster_info.raft_term = None
            /\ arg.headers[XETCD_CLUSTER_ID] = Some(<<"FF">>) =>
                ret.out.value.cluster_info.cluster_id = None

\* A write succeeded on a response whose four headers do not decode.
C19_Witness ==
    /\ ret.phase = "done"
    /\ arg.raw = "raw_set"
    /\ arg.headers = [name \in HeaderNames |->
                        IF name = XETCD_CLUSTER_ID THEN Some(<<"FF">>) ELSE Some(<<"x">>)]
    /\ ret.out = Ok([data |-> "node1", cluster_info |-> NoClusterInfo])


-----------------------------------------------------------------------------
(* raw_set's encoding on its own, over every SetOptions *)

AllSetOptions ==
    [conditions : OptOf(ConditionInputs), create_in_order : BOOLEAN,
     dir : OptOf(BOOLEAN), prev_exist : OptOf(BOOLEAN), refresh : BOOLEAN,
     ttl : OptOf(Ttls), value : OptOf(Values)]

EncodeInit ==
    /\ endpoints = <<>>
    /\ made = NoOutcome
    /\ NoCalls
    /\ NoFanout
    /\ arg \in AllSetOptions
    /\ ret = Pending

\* raw_set runs up to first_ok: it builds http_options or fails validation.
Encode ==
    /\ ret = Pending
    /\ ret' = RawSetPreamble(arg)
    /\ UNCHANGED <<endpoints, kv, made, fanout, arg>>

EncodeNext == Encode

EncodeSpec == EncodeInit /\ [][EncodeNext]_vars

-----------------------------------------------------------------------------
(* C20: prevExist and refresh in the write encoding *)

\* How many of the pairs carry the name.
Occurrences(pairs, name) ==
    Cardinality({n \in 1..Len(pairs) : pairs[n][1] = name})

\* C20: the form body of a write carries prevExist once, with the explicit
\* prev_exist when one is given (false included, refresh or not), with true
\* when none is given and refresh is set, and not at all when none is given
\* and refresh is not set; it carries refresh=true once when refresh is set
\* and no refresh parameter otherwise.  The options refresh() builds carry
\* prevExist=true and refresh=true.
C20_PrevExistEncoding ==
    ret.tag = "Ok" =>
        LET body == ret.value.body
            sent == Range(body)
        IN
        /\ arg.prev_exist = Some(TRUE) =>
            (<<"prevExist", "true">> \in sent /\ Occurrences(body, "prevExist") = 1)
        /\ arg.prev_exist = Some(FALSE) =>
            (<<"prevExist", "false">> \in sent /\ Occurrences(body, "prevExist") = 1)
        /\ (arg.prev_exist = None /\ arg.refresh) =>
            (<<"prevExist", "true">> \in sent /\ Occurrences(body, "prevExist") = 1)
        /\ (arg.prev_exist = None /\ ~arg.refresh) =>
            Occurrences(body, "prevExist") = 0
        /\ arg.refresh =>
            (<<"refresh", "true">> \in sent /\ Occurrences(body, "refresh") = 1)
        /\ ~arg.refresh => Occurrences(body, "refresh") = 0
        /\ (\E call \in Invocations : call.fn = "refresh" /\ call.options = arg) =>
            (<<"prevExist", "true">> \in sent /\ <<"refresh", "true">> \in sent)

\* A write with an explicit prev_exist of false and refresh set was encoded
\* with prevExist=false and refresh=true.
C20_Witness ==
    /\ arg.prev_exist = Some(FALSE)
    /\ arg.refresh
    /\ ret.tag = "Ok"
    /\ <<"prevExist", "false">> \in Range(ret.value.body)
    /\ <<"refresh", "true">> \in Range(ret.value.body)


-----------------------------------------------------------------------------
(* C21: create_in_order *)

\* The names of the parameters a write may carry.
WriteParameters ==
    {"value", "ttl", "dir", "prevExist", "refresh", "prevIndex", "prevValue"}

\* C21: every request of a write, on every attempt, is a POST when the write
\* has create_in_order set and a PUT when it has not; its URI is the key
\* under the endpoint attempted and its form body is the one of the same
\* write with create_in_order unset, which also passes or fails validation
\* alike; no other call sends a POST or a PUT.
C21_OnlyTheVerb ==
    \A c \in Calls :
        LET plain == [op[c].options EXCEPT !.create_in_order = FALSE] IN
        /\ op[c].raw = "raw_set" =>
            /\ RawSetPreamble(op[c].options) = RawSetPreamble(plain)
            /\ \A n \in At(c, "send") :
                LET req == log[c][n].req IN
                /\ req.method = IF op[c].options.create_in_order THEN "POST" ELSE "PUT"
                /\ req.uri = eps[c][log[c][n].pos] \o "v2/keys" \o op[c].key
                /\ req.body = SetHttpOptions(plain)
                /\ req.query = {}
                /\ \A k \in 1..Len(req.body) : req.body[k][1] \in WriteParameters
        /\ op[c].raw \in {"raw_get", "raw_delete"} =>
            \A n \in At(c, "send") : log[c][n].req.method \notin {"POST", "PUT"}
        /\ (op[c].fn = "create_in_order") <=>
            (op[c].raw = "raw_set" /\ op[c].options.create_in_order)

\* A create_in_order sent its POST to a second endpoint, with value and ttl.
C21_Witness ==
    \E c \in Calls :
        /\ op[c].fn = "create_in_order"
        /\ \E n \in At(c, "send") :
            /\ log[c][n].pos = 2
            /\ log[c][n].req.method = "POST"
            /\ Len(log[c][n].req.body) = 2


-----------------------------------------------------------------------------
(* C22: the ttl of a write *)

\* The decimal renderings of the integers of a set.
Decimals(S) == {ToString(t) : t \in S}

\* The values of the ttl parameters of a request.
TtlsSent(req) == {req.body[k][2] : k \in {j \in 1..Len(req.body) : req.body[j][1] = "ttl"}}

\* C22 as stated: the ttl parameter of every request of a write is an
\* integer greater than zero.
C22_AsStated ==
    \A c \in Calls : \A n \in At(c, "send") :
        op[c].raw = "raw_set" => TtlsSent(log[c][n].req) \subseteq Decimals(1..99)

\* C22, amended: a write given a ttl sends it once, as the decimal rendering
\* of the number given, which is zero or more (a ttl of 0 is accepted and
\* sent as ttl=0); a write given no ttl sends none.
C22_TtlAsGiven ==
    \A c \in Calls : \A n \in At(c, "send") :
        op[c].raw = "raw_set" =>
            LET req == log[c][n].req IN
            /\ TtlsSent(req) \subseteq Decimals(0..99)
            /\ Occurrences(req.body, "ttl") = IF IsSome(op[c].options.ttl) THEN 1 ELSE 0
            /\ IsSome(op[c].options.ttl) =>
                TtlsSent(req) = {ToString(Unwrap(op[c].options.ttl))}

\* A set with a ttl of zero sent ttl=0.
C22_Witness ==
    \E c \in Calls : \E n \in At(c, "send") :
        /\ op[c].fn = "set"
        /\ op[c].options.ttl = Some(0)
        /\ <<"ttl", "0">> \in Range(log[c][n].req.body)


-----------------------------------------------------------------------------
(* C23: status codes *)

\* C23 as stated: whatever the function, an answer of status 200 or 201
\* whose body is the expected document is a success, an answer of another
\* status whose body is an error document is that application error, a body
\* that is neither is a serialization error, and the three functions return
\* the same for the same answer.
C23_AsStated ==
    (ret.phase = "done" /\ arg.reply.arrived) =>
        LET reply == arg.reply IN
        /\ (reply.status \in {StatusOK, StatusCreated} /\ reply.body = "KeyValueInfo") =>
            ret.out.tag = "Ok"
        /\ (reply.status \notin {StatusOK, StatusCreated} /\ reply.body = "ApiError") =>
            ret.out = Err(ErrApi(reply.content))
        /\ reply.body = "Garbage" => ret.out = Err(ErrSerialization)
        /\ \A raw \in RawFns : Respond(raw, reply, arg.headers) = ret.out

\* The statuses a function takes for a success.
SuccessStatuses(raw) ==
    IF raw = "raw_set" THEN {StatusOK, StatusCreated} ELSE {StatusOK}

\* C23, amended: a write takes 200 and 201 for a success, a read and a delete
\* take 200 only.  An answer of a success status is decoded as the expected
\* document: it is a success with that data, or a serialization error.  An
\* answer of any other status, 201 on a read or a delete included, is
\* decoded as an error document: it is that application error, or a
\* serialization error.  An answer that does not arrive is a transport error.
C23_StatusMapping ==
    ret.phase = "done" =>
        LET reply == arg.reply IN
        IF ~reply.arrived THEN ret.out = Err(ErrHttp)
        ELSE IF reply.status \in SuccessStatuses(arg.raw)
            THEN IF reply.body = "KeyValueInfo"
                    THEN ret.out.tag = "Ok" /\ ret.out.value.data = reply.content
                    ELSE ret.out = Err(ErrSerialization)
            ELSE IF reply.body = "ApiError"
                    THEN ret.out = Err(ErrApi(reply.content))
                    ELSE ret.out = Err(ErrSerialization)

\* A read answered 201 with a key-value document returned a serialization error.
C23_Witness ==
    /\ ret.phase = "done"
    /\ arg.raw = "raw_get"
    /\ arg.reply.arrived
    /\ arg.reply.status = StatusCreated
    /\ arg.reply.body = "KeyValueInfo"
    /\ ret.out = Err(ErrSerialization)


-----------------------------------------------------------------------------
(* C24: no deadline but the watch's *)

\* The call is not a watch and one of its requests is never answered.
Unanswered(c) ==
    /\ op[c].fn \notin {"none", "watch"}
    /\ \E r \in net[c] : r.lost

\* C24: a call other than a watch never has a timer; when the endpoint of
\* its attempt on position k never answers, the call is suspended on that
\* attempt and stays so: it has no result, position k is the last one it
\* attempted and the attempt has not returned, whatever endpoints follow.
C24_NoDeadline ==
    \A c \in Calls :
        /\ op[c].fn # "watch" => timer[c] = "off"
        /\ Unanswered(c) =>
            /\ pc[c] = "await"
            /\ result[c] = Pending
            /\ \A r \in net[c] : r.pos = idx[c]
            /\ AttemptedPositions(c) = 1..idx[c]
            /\ log[c][Len(log[c])].ev = "send"
            /\ log[c][Len(log[c])].pos = idx[c]

\* A get is suspended on its first endpoint, which never answers, with
\* another endpoint after it.
C24_Witness ==
    \E c \in Calls :
        /\ op[c].fn = "get"
        /\ Unanswered(c)
        /\ idx[c] = 1
        /\ Len(eps[c]) >= 2


-----------------------------------------------------------------------------
(* C25: success or all the errors, never both *)

\* C25: a call that returned a success returned the value of its Ok
\* callback and no error, whatever errors its earlier attempts left in the
\* accumulator; a call that went through first_ok and returned errors got no
\* Ok from any callback and an Err from the callback on every endpoint.
C25_NeverPartial ==
    \A c \in Calls :
        pc[c] = "done" =>
            /\ result[c].tag = "Ok" =>
                /\ result[c].errors = <<>>
                /\ \E n \in OkReturns(c) : result[c] = OkResult(log[c][n].out.value)
            /\ (result[c].tag \in {"Err", "Other"} /\ InFailover(c)) =>
                /\ OkReturns(c) = {}
                /\ FailedEverywhere(c)
                /\ result[c].value = NoValue
                /\ Len(result[c].errors) = Len(eps[c])

\* A call succeeded on its third endpoint after two failures.
C25_Witness ==
    \E c \in Calls :
        /\ pc[c] = "done"
        /\ result[c].tag = "Ok"
        /\ Len(errors[c]) = 2
        /\ Cardinality(ErrReturns(c)) = 2


-----------------------------------------------------------------------------
(* Two calls on one client: one after the other, or interleaved *)

Pair == {"c1", "c2"}

\* The calls made: an in-order creation and a plain read of the same key.
PairInvocations ==
    {create_in_order(k, v, None) : k \in GoodKeys, v \in Values}
    \cup {get(k, [recursive |-> FALSE, sort |-> FALSE, strong_consistency |-> FALSE]) :
            k \in GoodKeys}

\* The answers to their requests: none, the document, an error document.
PairReplies ==
    {r \in Replies :
        \/ ~r.arrived
        \/ r.status = StatusOK /\ r.body = "KeyValueInfo" /\ r.content = "node1"
        \/ r.status \in OtherStatuses /\ r.body = "ApiError"}

PairInit ==
    /\ endpoints \in {Custom(l).value.endpoints :
                        l \in {i \in EndpointInputs : Custom(i).tag = "Ok"}}
    /\ made = Custom(endpoints)
    /\ pc = [c \in Pair |-> "idle"]
    /\ op = [c \in Pair |-> NoCall]
    /\ params = [c \in Pair |-> NoParams]
    /\ eps = [c \in Pair |-> <<>>]
    /\ idx = [c \in Pair |-> 0]
    /\ errors = [c \in Pair |-> <<>>]
    /\ result = [c \in Pair |-> Pending]
    /\ timer = [c \in Pair |-> "off"]
    /\ net = [c \in Pair |-> {}]
    /\ log = [c \in Pair |-> <<>>]
    /\ NoFanout
    /\ NoProbe

\* The second call is made once the first has returned; both results are kept.
SeqNext ==
    \E c \in Pair :
        \/ \E call \in PairInvocations :
            /\ c = "c2" => pc["c1"] = "done"
            /\ Invoke(c, call)
        \/ Enter(c)
        \/ Attempt(c)
        \/ \E reply \in PairReplies : Complete(c, reply)
        \/ Exhaust(c)

SeqSpec == PairInit /\ [][SeqNext]_vars

\* The two calls are made and polled in any interleaving (try_join_all).
ConcNext ==
    \E c \in Pair :
        \/ \E call \in PairInvocations : Invoke(c, call)
        \/ Enter(c)
        \/ Attempt(c)
        \/ \E reply \in PairReplies : Complete(c, reply)
        \/ Exhaust(c)

ConcSpec == PairInit /\ [][ConcNext]_vars


-----------------------------------------------------------------------------
(* C26, C27: calls on the same client *)

\* The attempt events of a call, in order.
Attempts(c) == SelectSeq(log[c], LAMBDA e : e.ev = "attempt")

\* C26: no step changes the client's endpoint sequence, which is the one it
\* was constructed with; every call, the later one whatever the earlier one
\* returned, runs first_ok over that sequence: its n-th attempt is on
\* position n and each request it sends goes to the endpoint of its position.
C26_StatelessBetweenCalls ==
    /\ [](/\ made.tag = "Ok"
          /\ endpoints = made.value.endpoints
          /\ \A c \in Pair :
                /\ InFailover(c) => eps[c] = endpoints
                /\ \A n \in 1..Len(Attempts(c)) : Attempts(c)[n].pos = n
                /\ \A n \in At(c, "send") :
                    log[c][n].req.uri =
                        endpoints[log[c][n].pos] \o "v2/keys" \o op[c].key)
    /\ [][endpoints' = endpoints /\ made' = made]_vars

\* The earlier call failed on the first endpoint and succeeded on the second;
\* the later call sent its first request to the first endpoint all the same.
C26_Witness ==
    /\ pc["c1"] = "done"
    /\ result["c1"].tag = "Ok"
    /\ idx["c1"] = 2
    /\ Len(log["c2"]) >= 2
    /\ log["c2"][2].ev = "send"
    /\ log["c2"][2].pos = 1
    /\ log["c2"][2].req.uri = endpoints[1] \o "v2/keys" \o op["c2"].key

\* C27: with two calls interleaved, the accumulator of each call holds the
\* errors its own callbacks returned, in order, and nothing else; a call
\* that is over returned the value of its own Ok callback, or the errors of
\* its own callbacks; each call attempts the positions in order, one at a
\* time, and its Ok, if any, is its last event.
C27_CallsDoNotInterfere ==
    \A c \in Pair :
        /\ InFailover(c) => errors[c] = ReturnedErrors(c)
        /\ \A n \in 1..Len(Attempts(c)) : Attempts(c)[n].pos = n
        /\ Cardinality(At(c, "attempt")) - Cardinality(At(c, "return")) \in {0, 1}
        /\ Cardinality(net[c]) <= 1
        /\ \A n \in OkReturns(c) :
            /\ n = Len(log[c])
            /\ pc[c] = "done"
            /\ result[c] = OkResult(log[c][n].out.value)
        /\ (pc[c] = "done" /\ result[c].tag = "Err") =>
            /\ result[c].errors = ReturnedErrors(c)
            /\ Len(result[c].errors) = Len(endpoints)
            /\ OkReturns(c) = {}

\* Both calls are suspended on their second endpoint, the first after a
\* transport error and the second after an application error.
C27_Witness ==
    /\ pc["c1"] = "await"
    /\ pc["c2"] = "await"
    /\ errors["c1"] = <<ErrHttp>>
    /\ errors["c2"] = <<ErrApi("Key already exists")>>


-----------------------------------------------------------------------------
(* C28: the compare operations *)

CompareParameters == {"prevValue", "prevIndex"}

IsCompare(pair) == pair[1] \in CompareParameters

NotCompare(pair) == pair[1] \notin CompareParameters

\* C28: every request of a compare_and_swap(key, value, ttl, cv, ci) is a PUT
\* to the key whose form body, the prevValue and prevIndex pairs taken out,
\* is the body of set(key, value, ttl), and whose prevValue and prevIndex
\* pairs are those of the conditions given; every request of a
\* compare_and_delete is a DELETE with no body whose query holds the
\* conditions given as prevValue and prevIndex and nothing else.
C28_CompareAddsOnlyConditions ==
    \A c \in Calls : \A n \in At(c, "send") :
        LET req == log[c][n].req
            options == op[c].options
        IN  /\ op[c].fn = "compare_and_swap" =>
                LET plain == set(op[c].key, Unwrap(options.value), options.ttl) IN
                /\ req.method = "PUT"
                /\ req.method = Method(plain)
                /\ req.uri = eps[c][log[c][n].pos] \o "v2/keys" \o plain.key
                /\ req.query = {}
                /\ SelectSeq(req.body, NotCompare) = SetHttpOptions(plain.options)
                /\ SelectSeq(req.body, IsCompare)
                        = SetConditionPairs(Unwrap(options.conditions))
                /\ SelectSeq(req.body, IsCompare) # <<>>
            /\ op[c].fn = "compare_and_delete" =>
                /\ req.method = "DELETE"
                /\ req.uri = eps[c][log[c][n].pos] \o "v2/keys" \o op[c].key
                /\ req.body = <<>>
                /\ req.query # {}
                /\ \A pair \in req.query : IsCompare(pair)
                /\ req.query
                    = DeleteConditionPairs({}, Unwrap(options.conditions))

\* A compare_and_swap with a ttl and both conditions sent its request: value,
\* ttl, prevIndex and prevValue.
C28_Witness ==
    \E c \in Calls : \E n \in At(c, "send") :
        /\ op[c].fn = "compare_and_swap"
        /\ Len(log[c][n].req.body) = 4

\* A compare_and_delete with both conditions sent its request.
C28_DeleteSent ==
    \E c \in Calls : \E n \in At(c, "send") :
        /\ op[c].fn = "compare_and_delete"
        /\ Cardinality(log[c][n].req.query) = 2


-----------------------------------------------------------------------------
(* C29: a key that does not parse as part of a URI *)

\* n invalid-URI errors.
InvalidUris(n) == [k \in 1..n |-> ErrInvalidUri]

\* C29: a call in failover whose key makes the URI malformed sends no request
\* and is never suspended on one; each of its attempts returned the
\* invalid-URI error, one per endpoint position in order; once it has
\* completed it attempted every endpoint and its result is one invalid-URI
\* error per endpoint (within Other for a watch, whose timer did not fire).
\* A call with a well-formed key never gets that error.
C29_MalformedKey ==
    \A c \in Calls :
        /\ (InFailover(c) /\ op[c].key \in BadKeys) =>
            /\ At(c, "send") = {}
            /\ net[c] = {}
            /\ pc[c] # "await"
            /\ timer[c] # "fired"
            /\ \A n \in At(c, "return") : log[c][n].out = Err(ErrInvalidUri)
            /\ Cardinality(At(c, "return")) = Cardinality(At(c, "attempt"))
            /\ errors[c] = InvalidUris(Cardinality(At(c, "attempt")))
            /\ AttemptedPositions(c) = 1..Len(errors[c])
            /\ pc[c] = "done" =>
                /\ AttemptedPositions(c) = 1..Len(eps[c])
                /\ result[c] = Returned(op[c], ErrResult(InvalidUris(Len(eps[c]))))
        /\ (InFailover(c) /\ op[c].key \in GoodKeys) =>
            /\ \A n \in At(c, "return") : log[c][n].out # Err(ErrInvalidUri)
            /\ Cardinality(At(c, "send")) = Cardinality(At(c, "attempt"))

\* A call with a malformed key completed on a client of two or more
\* endpoints.
C29_Witness ==
    \E c \in Calls :
        /\ InFailover(c)
        /\ op[c].key \in BadKeys
        /\ pc[c] = "done"
        /\ Len(eps[c]) >= 2
        /\ Len(result[c].errors) = Len(eps[c])


-----------------------------------------------------------------------------
(* C30: no endpoint position is attempted twice *)

\* The events of a kind in the log of a call that are at a position.
AtPosition(c, ev, k) == {n \in At(c, ev) : log[c][n].pos = k}

\* C30: in every call, each endpoint position has at most one attempt, at
\* most one request sent and at most one return; the positions attempted are
\* the first ones of the list, in order.  Every request of a watch is a GET
\* with wait=true, so a watch issues at most one long-poll per endpoint.
C30_AtMostOncePerPosition ==
    \A c \in Calls :
        /\ \A k \in 1..MaxEndpoints + 1 :
            /\ Cardinality(AtPosition(c, "attempt", k)) <= 1
            /\ Cardinality(AtPosition(c, "send", k)) <= 1
            /\ Cardinality(AtPosition(c, "return", k)) <= 1
            /\ AtPosition(c, "attempt", k) # {} => k <= Len(eps[c])
        /\ AttemptedPositions(c) = 1..Cardinality(At(c, "attempt"))
        /\ \A m, n \in At(c, "attempt") : m < n => log[c][m].pos < log[c][n].pos
        /\ Cardinality(At(c, "send")) <= Len(eps[c])
        /\ IsWatch(c) =>
            \A n \in At(c, "send") :
                /\ log[c][n].req.method = "GET"
                /\ <<"wait", "true">> \in log[c][n].req.query

\* A watch sent its long-poll to each of three endpoints, one after the
\* failure of the other.
C30_Witness ==
    \E c \in Calls :
        /\ IsWatch(c)
        /\ Len(eps[c]) = 3
        /\ \A k \in 1..3 : Cardinality(AtPosition(c, "send", k)) = 1


-----------------------------------------------------------------------------
(* A watch under a clock.  The clock (arg) counts the timer units since the *)
(* watch was first polled, which is when it calls timeout(duration, work)   *)
(* and so fixes the deadline; ret is the instrumentation of the clock: for  *)
(* each tick, how many events the log of each call held when it struck.     *)

\* The last timer unit the clock reaches.
MaxTime == 3

\* Durations of the timeout of a timed watch, in timer units.
TimedDurations == {2}

TimedInvocations ==
    {watch(k, [index |-> None, recursive |-> FALSE, timeout |-> t]) :
        k \in GoodKeys, t \in OptOf(TimedDurations)}

\* The timer units that went by since the call's latest callback was invoked.
SinceLastAttempt(c) ==
    Cardinality({k \in 1..Len(ret) :
                    \A n \in At(c, "attempt") : ret[k][c] >= n})

\* A variant of Due for a timer that starts again with every callback.
DuePerEndpoint(c) ==
    /\ timer[c] = "armed"
    /\ SinceLastAttempt(c) >= Unwrap(op[c].timeout)

\* The deadline of the watch's timeout has come: the duration has gone by
\* since the watch was first polled.
Due(c) ==
    /\ timer[c] = "armed"
    /\ arg >= Unwrap(op[c].timeout)

TimedInit ==
    /\ endpoints \in {Custom(l).value.endpoints :
                        l \in {i \in EndpointInputs : Custom(i).tag = "Ok"}}
    /\ made = Custom(endpoints)
    /\ NoCalls
    /\ NoFanout
    /\ arg = 0
    /\ ret = <<>>

\* A timer unit goes by while a call is suspended on its request.  A timeout
\* that is due wakes its watch before more time passes.
Tick ==
    /\ arg < MaxTime
    /\ \E c \in Calls : pc[c] = "await"
    /\ \A c \in Calls : ~(pc[c] = "await" /\ Due(c))
    /\ arg' = arg + 1
    /\ ret' = Append(ret, [c \in Calls |-> Len(log[c])])
    /\ UNCHANGED <<endpoints, kv, made, fanout>>

\* The timeout wins the race: its deadline has come and the failover, polled
\* first, is still suspended.
TimedElapse(c) == Due(c) /\ Elapse(c)

TimedNext ==
    \/ Tick
    \/ \E c \in Calls :
        \/ \E call \in TimedInvocations : Invoke(c, call)
        \/ Enter(c)
        \/ Attempt(c)
        \/ \E reply \in PairReplies : Complete(c, reply)
        \/ Exhaust(c)
        \/ TimedElapse(c)

\* Time goes by and the runtime fires a timer that is due.
TimedSpec ==
    /\ TimedInit
    /\ [][TimedNext]_vars
    /\ WF_vars(Tick)
    /\ \A c \in Calls : WF_vars(TimedElapse(c))


-----------------------------------------------------------------------------
(* C31: the timer of a watch *)

\* The request the call sent to the endpoint at a position is never answered.
NeverAnswered(c, k) == \E r \in net[c] : r.pos = k /\ r.lost

\* C31: the timer of a watch is armed once, in the step in which the watch is
\* first polled, and no callback arms or re-arms it; a watch returns Timeout
\* exactly when its duration has gone by since that step, however late its
\* latest endpoint was contacted.  A watch with a timeout whose first
\* endpoint never answers contacts no other endpoint and returns Timeout; one
\* whose later endpoint never answers returns Timeout as well, the duration
\* after its start.
C31_OneShotTimer ==
    /\ [](\A c \in Calls :
            /\ result[c] = WatchTimeout =>
                /\ arg = Unwrap(op[c].timeout)
                /\ SinceLastAttempt(c) <= Unwrap(op[c].timeout)
                /\ SinceLastAttempt(c) = Unwrap(op[c].timeout)
                    => \A n \in At(c, "attempt") : Len(ret) > 0 /\ ret[1][c] >= n
            /\ NeverAnswered(c, 1) => AttemptedPositions(c) = {1}
            /\ timer[c] = "armed" => arg <= Unwrap(op[c].timeout))
    /\ [][\A c \in Calls :
            /\ (timer'[c] = "armed" /\ timer[c] # "armed") =>
                (pc[c] = "issued" /\ arg = 0 /\ log[c] = <<>>)
            /\ (timer[c] = "armed" /\ pc'[c] # "done") => timer'[c] = "armed"
            /\ timer[c] = "fired" => timer'[c] = "fired"]_vars
    /\ \A c \in Calls : \A k \in 1..MaxEndpoints :
            (IsSome(op[c].timeout) /\ NeverAnswered(c, k))
                ~> (/\ result[c] = WatchTimeout
                    /\ arg = Unwrap(op[c].timeout)
                    /\ AttemptedPositions(c) = 1..k)

\* The first endpoint failed after one timer unit, the second was contacted
\* then and never answered, and the watch timed out: one unit after that
\* contact, two after its start.
C31_Witness ==
    \E c \in Calls :
        /\ result[c] = WatchTimeout
        /\ NeverAnswered(c, 2)
        /\ ErrReturns(c) # {}
        /\ SinceLastAttempt(c) = 1
        /\ arg = 2


-----------------------------------------------------------------------------
(* C32: the fan-out is as wide as the endpoint list *)

\* C32: from its first poll on, a status stream over N endpoints has every
\* one of its N futures either on the wire or completed: none waits for
\* another to finish.  Whatever is still on the wire, a completed item that
\* was not handed over can be handed over, and the items handed over are
\* the completed ones.
C32_FanOutUnblocked ==
    stream.phase = "open" =>
        LET N == Len(endpoints) IN
        /\ Cardinality(inflight) + Len(completed) = N
        /\ inflight \cup Positions(completed) = 1..N
        /\ Len(yielded) <= Len(completed)
        /\ Len(yielded) < Len(completed) => ENABLED Yield
        /\ Positions(yielded) \subseteq (1..N) \ inflight

\* The request to the first of three endpoints is still on the wire and the
\* items of the other two were handed over.
C32_Witness ==
    /\ stream.phase = "open"
    /\ Len(endpoints) = 3
    /\ inflight = {1}
    /\ Positions(yielded) = {2, 3}

\* The three requests of a stream over three endpoints are on the wire at
\* once.
C32_AllInFlight ==
    /\ stream.phase = "open"
    /\ inflight = {1, 2, 3}


-----------------------------------------------------------------------------
(* C33: the status stream is lazy and finite *)

\* C33: a stream that was built and not polled has sent no request and
\* holds no item; a polled stream whose N requests all completed ends once
\* its N items are handed over, and not before; a stream that ended handed
\* over exactly N items, has nothing on the wire, and nothing more can be
\* sent, completed or handed over: it stays as it is until it is dropped.
C33_LazyAndFinite ==
    LET N == Len(endpoints) IN
    /\ stream.phase = "created" =>
        /\ requested = <<>>
        /\ inflight = {}
        /\ completed = <<>>
        /\ yielded = <<>>
    /\ stream = NoStream => (requested = <<>> /\ inflight = {})
    /\ stream.phase = "open" =>
        /\ Len(yielded) <= N
        /\ (inflight = {} /\ Len(yielded) = N) => ENABLED End
        /\ (inflight = {} /\ Len(yielded) < N) => (ENABLED Yield /\ ~ENABLED End)
        /\ inflight # {} => ~ENABLED End
    /\ stream.phase = "ended" =>
        /\ Len(yielded) = N
        /\ Len(completed) = N
        /\ Len(requested) <= N
        /\ inflight = {}
        /\ ~ENABLED Yield
        /\ ~ENABLED Fill
        /\ ~ENABLED End
        /\ ~ENABLED (\E k \in 1..MaxEndpoints, reply \in StatusReplies(stream.fn) :
                        Finish(k, reply))

\* A stream over three endpoints ended after its three items.
C33_Witness ==
    /\ stream.phase = "ended"
    /\ Len(endpoints) = 3
    /\ Len(yielded) = 3

\* A stream over three endpoints was built and not polled.
C33_NotPolled ==
    /\ stream.phase = "created"
    /\ Len(endpoints) = 3


-----------------------------------------------------------------------------
(* C34: a failure has a first error *)

\* The call returned an error list: Err(errors), or Other(errors) for a watch.
FailedWithList(c) == pc[c] = "done" /\ result[c].tag \in {"Err", "Other"}

\* C34: the client holds one endpoint or more, and so does every call's copy
\* of the list; an error list a call returns has a first element: the list
\* of a call that went through failover has one error per endpoint, each
\* from an attempt, and the list of a call that failed its validation is the
\* one validation error.
C34_FailureHasFirstError ==
    /\ Len(endpoints) >= 1
    /\ \A c \in Calls :
        /\ InFailover(c) => Len(eps[c]) >= 1
        /\ FailedWithList(c) =>
            /\ Len(result[c].errors) >= 1
            /\ result[c].errors[1].kind
                    \in {"InvalidConditions", "InvalidUri", "Http", "Serialization", "Api"}
            /\ InFailover(c) =>
                /\ At(c, "attempt") # {}
                /\ Len(result[c].errors) = Len(eps[c])
                /\ result[c].errors[1] = log[c][CHOOSE n \in ErrReturns(c) :
                                                    log[c][n].pos = 1].out.error
            /\ ~InFailover(c) =>
                /\ At(c, "attempt") = {}
                /\ Len(result[c].errors) = 1
                /\ result[c] = Returned(op[c], Preamble(op[c]))

\* An update was answered with an error document by the only endpoint of
\* its client: the first error of its failure is that Api error.
C34_Witness ==
    \E c \in Calls :
        /\ op[c].fn = "update"
        /\ FailedWithList(c)
        /\ Len(eps[c]) = 1
        /\ result[c].errors[1].kind = "Api"

\* A call failed its validation.
C34_ValidationFailed ==
    \E c \in Calls : FailedWithList(c) /\ ~InFailover(c)


-----------------------------------------------------------------------------
(* A call that is driven to its end: the caller awaits it, so the executor  *)
(* polls it whenever it can make a step, and the transport delivers every   *)
(* answer that is on its way.                                               *)

DrivenNext ==
    \E c \in Calls :
        \/ \E call \in PairInvocations : Invoke(c, call)
        \/ Enter(c)
        \/ Attempt(c)
        \/ \E reply \in PairReplies : Complete(c, reply)
        \/ Exhaust(c)

DrivenSpec ==
    /\ Init
    /\ [][DrivenNext]_vars
    /\ \A c \in Calls :
        /\ WF_vars(Enter(c))
        /\ WF_vars(Attempt(c))
        /\ WF_vars(\E reply \in PairReplies : Complete(c, reply))
        /\ WF_vars(Exhaust(c))


-----------------------------------------------------------------------------
(* C35: failover terminates *)

\* C35: a call that was made completes, unless one of its requests is never
\* answered; a completed failover over N endpoints made at most N attempts
\* and returned either the Ok of its last attempt, the only one that
\* succeeded, or the errors of its N attempts.
C35_FailoverTerminates ==
    /\ \A c \in Calls :
        (pc[c] \in {"issued", "loop", "await"})
            ~> (pc[c] = "done" \/ \E r \in net[c] : r.lost)
    /\ [](\A c \in Calls :
            /\ Cardinality(At(c, "attempt")) <= Len(eps[c])
            /\ (pc[c] = "done" /\ InFailover(c)) =>
                \/ /\ result[c].tag = "Ok"
                    /\ Cardinality(OkReturns(c)) = 1
                    /\ Cardinality(At(c, "attempt")) = Len(errors[c]) + 1
                    /\ \E n \in OkReturns(c) :
                        /\ n = Len(log[c])
                        /\ result[c] = OkResult(log[c][n].out.value)
                \/ /\ result[c].tag = "Err"
                    /\ OkReturns(c) = {}
                    /\ Cardinality(At(c, "attempt")) = Len(eps[c])
                    /\ result[c] = ErrResult(ReturnedErrors(c))
                    /\ Len(result[c].errors) = Len(eps[c]))

\* A call over three endpoints completed with the Ok of its third attempt.
C35_Witness ==
    \E c \in Calls :
        /\ pc[c] = "done"
        /\ Len(eps[c]) = 3
        /\ result[c].tag = "Ok"
        /\ Cardinality(At(c, "attempt")) = 3

\* A call over three endpoints completed with three errors.
C35_AllFailed ==
    \E c \in Calls :
        /\ pc[c] = "done"
        /\ Len(eps[c]) = 3
        /\ result[c].tag = "Err"
        /\ Len(result[c].errors) = 3


-----------------------------------------------------------------------------
(* The auth API: enable and disable (crate::auth).  Both go through         *)
(* first_ok; ret is the instrumentation of the transport: the answers       *)
(* delivered, each with the call and the endpoint position it answered.     *)

StatusConflict == 409

\* Error::UnexpectedStatus(status).
ErrUnexpectedStatus(status) ==
    [kind |-> "UnexpectedStatus", message |-> ToString(status)]

\* auth::enable(client) and auth::disable(client).
enable == Call("enable", "auth", "/enable", [conditions |-> None], None)

disable == Call("disable", "auth", "/enable", [conditions |-> None], None)

\* build_uri of the auth module: the endpoint, "v2/auth" and the path, parsed
\* as a URI; the parse succeeds for the endpoints a client holds.
AuthBuildUri(endpoint, path) == Ok(endpoint \o "v2/auth" \o path)

\* The request of an auth callback: enable PUTs an empty body, disable DELETEs.
AuthRequest(call, uri) ==
    [method |-> IF call.fn = "enable" THEN "PUT" ELSE "DELETE",
     uri |-> uri, query |-> {}, body |-> <<>>]

\* What a member answers an auth request: nothing, or a status.
AuthReplies ==
    {TransportFailure}
    \cup {[arrived |-> TRUE, status |-> s, body |-> "", content |-> ""] :
            s \in {StatusOK, StatusCreated, StatusConflict} \cup OtherStatuses}

\* A variant of the tail of an auth callback for which a conflict is an error.
ResponseConflictFails(reply) ==
    IF ~reply.arrived THEN Err(ErrHttp)
    ELSE IF reply.status = StatusOK THEN Ok([data |-> "Changed"])
    ELSE Err(ErrUnexpectedStatus(reply.status))

\* The tail of disable's callback, from the transport's answer on.
DisableResponse(reply) ==
    IF ~reply.arrived THEN Err(ErrHttp)
    ELSE CASE reply.status = StatusOK -> Ok([data |-> "Changed"])
           [] reply.status = StatusConflict -> Ok([data |-> "Unchanged"])
           [] OTHER -> Err(ErrUnexpectedStatus(reply.status))

\* The tail of enable's callback.
EnableResponse(reply) ==
    IF ~reply.arrived THEN Err(ErrHttp)
    ELSE CASE reply.status = StatusOK -> Ok([data |-> "Changed"])
           [] reply.status = StatusConflict -> Ok([data |-> "Unchanged"])
           [] OTHER -> Err(ErrUnexpectedStatus(reply.status))

AuthResponse(call, reply) ==
    IF call.fn = "enable" THEN EnableResponse(reply) ELSE DisableResponse(reply)

AuthInit ==
    /\ endpoints \in {Custom(l).value.endpoints :
                        l \in {i \in EndpointInputs : Custom(i).tag = "Ok"}}
    /\ made = Custom(endpoints)
    /\ NoCalls
    /\ NoFanout
    /\ arg = <<>>
    /\ ret = <<>>

\* The future of an auth call is polled for the first time: first_ok gets a
\* copy of the client's endpoints and starts its loop.
AuthEnter(c) ==
    /\ pc[c] = "issued"
    /\ eps' = [eps EXCEPT ![c] = endpoints]
    /\ errors' = [errors EXCEPT ![c] = <<>>]
    /\ idx' = [idx EXCEPT ![c] = 1]
    /\ pc' = [pc EXCEPT ![c] = "loop"]
    /\ UNCHANGED <<made, fanout, probe, endpoints, op, params, result, timer, net, log>>

\* The loop invokes the callback on the next endpoint: it builds the URI and
\* sends its request.
AuthAttempt(c) ==
    /\ CanAttempt(c)
    /\ LET k == idx[c]
           uri == AuthBuildUri(eps[c][k], op[c].key)
       IN
        /\ log' = [log EXCEPT ![c] =
                    @ \o <<Attempted(k), Sent(k, AuthRequest(op[c], uri.value))>>]
        /\ \E lost \in BOOLEAN :
            net' = [net EXCEPT ![c] = @ \cup {[pos |-> k, lost |-> lost]}]
        /\ pc' = [pc EXCEPT ![c] = "await"]
    /\ UNCHANGED <<made, fanout, probe, endpoints, op, params, eps, idx, errors,
                   result, timer>>

\* The transport answers the request the call is suspended on; the callback
\* maps the status to its Result and first_ok matches on it.
AuthComplete(c, reply) ==
    /\ pc[c] = "await"
    /\ \E r \in net[c] :
        /\ r.pos = idx[c]
        /\ ~r.lost
        /\ net' = [net EXCEPT ![c] = @ \ {r}]
    /\ LET out == AuthResponse(op[c], reply) IN
        /\ log' = [log EXCEPT ![c] = Append(@, Returns(idx[c], out))]
        /\ Match(c, out)
    /\ ret' = Append(ret, [call |-> c, pos |-> idx[c], reply |-> reply])
    /\ UNCHANGED <<made, fanout, arg, endpoints, op, params, eps>>

AuthNext ==
    \E c \in Calls :
        \/ \E call \in {enable, disable} : Invoke(c, call)
        \/ AuthEnter(c)
        \/ AuthAttempt(c)
        \/ \E reply \in AuthReplies : AuthComplete(c, reply)
        \/ Exhaust(c)

AuthSpec == AuthInit /\ [][AuthNext]_vars


-----------------------------------------------------------------------------
(* C36: the statuses of enable and disable *)

\* The Result the callback of a call returned at an endpoint position.
ReturnedAt(c, k) ==
    log[c][CHOOSE n \in At(c, "return") : log[c][n].pos = k].out

\* C36: for enable and for disable alike, an answer of 200 makes the
\* callback return Ok(Changed) and one of 409 Ok(Unchanged), and the call is
\* then over with that value, having attempted no later endpoint; an answer
\* of any other status makes the callback return the UnexpectedStatus error
\* of that status, which the call keeps at that position of its errors
\* while its loop goes on to the next endpoint, and the call fails only
\* after the last.
C36_AuthChangeStatuses ==
    \A j \in 1..Len(ret) :
        LET c == ret[j].call
            k == ret[j].pos
            reply == ret[j].reply
            out == ReturnedAt(c, k)
        IN  /\ op[c].fn \in {"enable", "disable"}
            /\ (reply.arrived /\ reply.status \in {StatusOK, StatusConflict}) =>
                /\ out = Ok([data |-> IF reply.status = StatusOK
                                        THEN "Changed" ELSE "Unchanged"])
                /\ pc[c] = "done"
                /\ result[c] = OkResult(out.value)
                /\ AttemptedPositions(c) = 1..k
                /\ j = Len(ret)
            /\ (reply.arrived /\ reply.status \notin {StatusOK, StatusConflict}) =>
                /\ out = Err(ErrUnexpectedStatus(reply.status))
                /\ errors[c][k] = ErrUnexpectedStatus(reply.status)
                /\ idx[c] > k
                /\ result[c].tag # "Ok" => idx[c] = Len(errors[c]) + 1
                /\ (pc[c] = "done" /\ result[c].tag = "Err") =>
                    (idx[c] = Len(eps[c]) + 1 /\ result[c].errors[k] = out.error)
                /\ (pc[c] = "loop" /\ idx[c] <= Len(eps[c])) => ENABLED AuthAttempt(c)

\* The first endpoint answered a disable with 404 and the second with 409:
\* the call returned Unchanged.
C36_Witness ==
    \E c \in Calls :
        /\ op[c].fn = "disable"
        /\ Len(ret) = 2
        /\ ret[1].reply.status = 404
        /\ ret[2].reply.status = StatusConflict
        /\ result[c] = OkResult([data |-> "Unchanged"])

\* An enable was answered 200 by its first endpoint.
C36_EnableChanged ==
    \E c \in Calls :
        /\ op[c].fn = "enable"
        /\ result[c] = OkResult([data |-> "Changed"])


-----------------------------------------------------------------------------
(* Failover over responses that carry headers.  ret is the instrumentation  *)
(* of the transport: the answers delivered, each with its headers, the call *)
(* and the endpoint position it answered.                                   *)

\* The headers of an answer: the etcd index alone, or no header at all.
AnswerHeaders ==
    {[NoHeaders EXCEPT ![XETCD_INDEX] = v] :
        v \in {None, Some(<<"7">>), Some(<<"7", "7">>)}}

\* A variant of Answer in which the callback keeps the ClusterInfo of the
\* first response the call received.
AnswerFirstInfo(c, reply, headers) ==
    /\ pc[c] = "await"
    /\ \E r \in net[c] :
        /\ r.pos = idx[c]
        /\ ~r.lost
        /\ net' = [net EXCEPT ![c] = @ \ {r}]
    /\ LET first == IF ret = <<>> THEN headers ELSE ret[1].headers
           out == Respond(op[c].raw, reply, first)
       IN
        /\ log' = [log EXCEPT ![c] = Append(@, Returns(idx[c], out))]
        /\ Match(c, out)
    /\ ret' = Append(ret, [call |-> c, pos |-> idx[c], reply |-> reply,
                           headers |-> headers])
    /\ UNCHANGED <<made, fanout, arg, endpoints, op, params, eps>>

\* The transport answers the request the call is suspended on with a
\* response and its headers; the callback reads the ClusterInfo off these
\* headers, decodes the body and returns, and first_ok matches on the Result.
Answer(c, reply, headers) ==
    /\ pc[c] = "await"
    /\ \E r \in net[c] :
        /\ r.pos = idx[c]
        /\ ~r.lost
        /\ net' = [net EXCEPT ![c] = @ \ {r}]
    /\ LET out == Respond(op[c].raw, reply, headers) IN
        /\ log' = [log EXCEPT ![c] = Append(@, Returns(idx[c], out))]
        /\ Match(c, out)
    /\ ret' = Append(ret, [call |-> c, pos |-> idx[c], reply |-> reply,
                           headers |-> headers])
    /\ UNCHANGED <<made, fanout, arg, endpoints, op, params, eps>>

EnvelopeInit ==
    /\ endpoints \in {Custom(l).value.endpoints :
                        l \in {i \in EndpointInputs : Custom(i).tag = "Ok"}}
    /\ made = Custom(endpoints)
    /\ NoCalls
    /\ NoFanout
    /\ arg = <<>>
    /\ ret = <<>>

EnvelopeNext ==
    \E c \in Calls :
        \/ \E call \in PairInvocations : Invoke(c, call)
        \/ Enter(c)
        \/ Attempt(c)
        \/ \E reply \in PairReplies, headers \in AnswerHeaders :
                Answer(c, reply, headers)
        \/ Exhaust(c)

EnvelopeSpec == EnvelopeInit /\ [][EnvelopeNext]_vars


-----------------------------------------------------------------------------
(* C37: the ClusterInfo of a result *)

\* C37: the value of a successful call is the data of the last answer the
\* call received together with the ClusterInfo read off the headers of that
\* same answer, which came from the only endpoint whose callback returned
\* Ok; the answers before it were failures, and what the call kept of them
\* is an error (a kind and a message) with no ClusterInfo.
C37_InfoOfSameResponse ==
    \A c \in Calls :
        /\ result[c].tag = "Ok" =>
            LET last == ret[Len(ret)] IN
            /\ ret # <<>>
            /\ last.call = c
            /\ result[c].value = [data |-> last.reply.content,
                                  cluster_info |-> ClusterInfoFrom(last.headers)]
            /\ \A n \in OkReturns(c) : log[c][n].pos = last.pos
            /\ \A j \in 1..Len(ret) - 1 :
                /\ ret[j].pos < last.pos
                /\ ReturnedAt(c, ret[j].pos).tag = "Err"
                /\ errors[c][j] = ReturnedAt(c, ret[j].pos).error
        /\ \A k \in 1..Len(errors[c]) : DOMAIN errors[c][k] = {"kind", "message"}
        /\ result[c].tag # "Ok" => DOMAIN result[c].value = {"data"}

\* The first endpoint answered with an error and an etcd index of 77, the
\* second with the data and an etcd index of 7: the result has index 7.
C37_Witness ==
    \E c \in Calls :
        /\ result[c].tag = "Ok"
        /\ Len(ret) = 2
        /\ ret[1].headers[XETCD_INDEX] = Some(<<"7", "7">>)
        /\ ret[2].headers[XETCD_INDEX] = Some(<<"7">>)
        /\ result[c].value.cluster_info.etcd_index = Some(7)


-----------------------------------------------------------------------------
(* C38: a watch that timed out is abandoned *)

\* C38: a watch whose result is Timeout is over; the endpoints it attempted
\* are the first ones of its list up to the one it was suspended on, whose
\* request was sent and whose callback did not return; the errors it holds
\* are those of the endpoints before; and nothing of its failover can run:
\* no callback can be invoked on a further endpoint, no answer can be
\* delivered to it, and the loop cannot finish.
C38_AbandonedAtTimeout ==
    \A c \in Calls :
        result[c] = WatchTimeout =>
            /\ IsWatch(c)
            /\ pc[c] = "done"
            /\ idx[c] \in 1..Len(eps[c])
            /\ AttemptedPositions(c) = 1..idx[c]
            /\ Cardinality(AtPosition(c, "send", idx[c])) = 1
            /\ AtPosition(c, "return", idx[c]) = {}
            /\ log[c][Len(log[c])] = Sent(idx[c], log[c][Len(log[c])].req)
            /\ Len(errors[c]) = idx[c] - 1
            /\ net[c] \subseteq {[pos |-> idx[c], lost |-> l] : l \in BOOLEAN}
            /\ ~ENABLED Attempt(c)
            /\ ~ENABLED Exhaust(c)
            /\ ~ENABLED (\E reply \in Replies : Complete(c, reply))
            /\ ~ENABLED Elapse(c)

\* A watch timed out while suspended on the second of three endpoints, whose
\* answer is on its way.
C38_Witness ==
    \E c \in Calls :
        /\ result[c] = WatchTimeout
        /\ Len(eps[c]) = 3
        /\ idx[c] = 2
        /\ \E r \in net[c] : ~r.lost


-----------------------------------------------------------------------------
(* A client from its construction to its use: Client::custom, then calls of *)
(* the key-value API and status streams on the client it returned.          *)

\* A key-value call is made on the client.
CallOn(c, call) ==
    /\ made.tag = "Ok"
    /\ stream = NoStream
    /\ Invoke(c, call)

\* A status stream is built on the client.
StatusOn(fn) ==
    /\ \A c \in Calls : pc[c] = "idle"
    /\ Status(fn)

UseNext ==
    \/ \E input \in EndpointInputs : New(input)
    \/ \E fn \in StatusFns : StatusOn(fn)
    \/ Fill
    \/ \E k \in 1..MaxEndpoints, reply \in StatusReplies(stream.fn) : Finish(k, reply)
    \/ Yield
    \/ End
    \/ DropStream
    \/ \E c \in Calls :
        \/ \E call \in PairInvocations : CallOn(c, call)
        \/ Enter(c)
        \/ Attempt(c)
        \/ \E reply \in PairReplies : Complete(c, reply)
        \/ Exhaust(c)
        \/ Drop(c)

UseSpec == ClientInit /\ [][UseNext]_vars


-----------------------------------------------------------------------------
(* C39: the endpoint sequence is the input list *)

\* C39: the client Client::custom returns holds the input list as it was
\* given: the same length, the same string at every position.  A call in
\* failover works on that list: the request of its attempt at position k
\* goes to the k-th string of the input, and a call that failed everywhere
\* sent as many requests as the input has strings.  A polled status stream
\* has one request per string of the input, the k-th to the k-th string.
C39_EndpointsAsGiven ==
    /\ made.tag = "Ok" =>
        /\ made.value.endpoints = arg
        /\ endpoints = arg
        /\ Len(endpoints) = Len(arg)
        /\ \A k \in 1..Len(arg) : endpoints[k] = arg[k]
    /\ \A c \in Calls :
        InFailover(c) =>
            /\ eps[c] = arg
            /\ \A n \in At(c, "send") :
                log[c][n].req.uri = arg[log[c][n].pos] \o "v2/keys" \o op[c].key
            /\ (pc[c] = "done" /\ result[c].tag = "Err") =>
                /\ Cardinality(At(c, "send")) = Len(arg)
                /\ Len(result[c].errors) = Len(arg)
    /\ stream.phase \in {"open", "ended"} =>
        /\ Len(requested) = Len(arg)
        /\ \A k \in 1..Len(arg) :
            requested[k] = [pos |-> k, uri |-> arg[k] \o StatusPath(stream.fn)]

\* The client was made of the same string three times, a call on it failed
\* on each and sent three requests to the same URI.
C39_Witness ==
    \E c \in Calls :
        /\ Len(arg) = 3
        /\ arg[1] = arg[2] /\ arg[2] = arg[3]
        /\ pc[c] = "done"
        /\ result[c].tag = "Err"
        /\ Cardinality(At(c, "send")) = 3
        /\ \A n, m \in At(c, "send") : log[c][n].req.uri = log[c][m].req.uri

\* A status stream on a client made of the same string twice requested that
\* member twice and handed over two items.
C39_RequestedTwice ==
    /\ Len(arg) = 2
    /\ arg[1] = arg[2]
    /\ Len(requested) = 2
    /\ requested[1].uri = requested[2].uri
    /\ Len(yielded) = 2

=============================================================================
